---- MODULE Spec2Model ----
(***************************************************************************)
(* Repeat-detection elimination for camera-trap detector output            *)
(* (api/batch_processing/postprocessing/find_repeat_detections.py).        *)
(*                                                                         *)
(* Units.  A confidence is an integer number of thousandths (0.9 = 900).   *)
(* A box is <<x_min, y_min, w, h>> in twentieths of the image side         *)
(* (0.05 = 1), so a relative area is a number of 1/400ths.  An IoU is the  *)
(* pair <<intersection, union>> and an IoU threshold is a number of        *)
(* tenths; the comparison cross-multiplies.  Row and detection indices     *)
(* are 0-based as in the program; sequences are 1-based, so a lookup adds  *)
(* one.                                                                    *)
(***************************************************************************)
EXTENDS Integers, Sequences, FiniteSets, TLC

\* ------------------------------------------------------------ bounds
\* Largest number of rows of a generated detection table.
MaxRows == 3
\* Largest count of the progress bar up to which render_images_for_directory
\* is called again on the results of a finished run.
MaxPbar == 3

\* ------------------------------------------------------------ scales
ConfScale == 1000
BoxScale == 20
IouScale == 10

\* ------------------------------------------------- RepeatDetectionOptions
\* confidenceMin = 0.849
confidenceMinDefault == 849
\* confidenceMax = 1.0
confidenceMaxDefault == 1000
\* iouThreshold = 0.9
iouThresholdDefault == 9
\* occurrenceThreshold = 15
occurrenceThresholdDefault == 15
\* maxSuspiciousDetectionSize = 0.2 (of BoxScale * BoxScale)
maxSuspiciousDetectionSizeDefault == 80
\* debugMaxDir = -1
debugMaxDirDefault == -1
\* abs(maxP - maxPOriginal) > 0.00000001: below one thousandth
Tolerance == 0
\* nWorkers = 10
nWorkersDefault == 10
\* debugMaxRenderDir = -1
debugMaxRenderDirDefault == -1
\* debugMaxRenderDetection = -1
debugMaxRenderDetectionDefault == -1
\* debugMaxRenderInstance = -1
debugMaxRenderInstanceDefault == -1

RepeatDetectionOptions ==
    [ confidenceMin |-> confidenceMinDefault,
      confidenceMax |-> confidenceMaxDefault,
      iouThreshold |-> iouThresholdDefault,
      occurrenceThreshold |-> occurrenceThresholdDefault,
      maxSuspiciousDetectionSize |-> maxSuspiciousDetectionSizeDefault,
      excludeClasses |-> {},
      filterFileToLoad |-> <<>>,
      filteredFileListToLoad |-> <<>>,
      bWriteFilteringFolder |-> TRUE,
      debugMaxDir |-> debugMaxDirDefault,
      nDirLevelsFromLeaf |-> 0,
      nWorkers |-> nWorkersDefault,
      bParallelizeComparisons |-> TRUE,
      bRenderHtml |-> FALSE,
      bParallelizeRendering |-> TRUE,
      debugMaxRenderDir |-> debugMaxRenderDirDefault,
      debugMaxRenderDetection |-> debugMaxRenderDetectionDefault,
      debugMaxRenderInstance |-> debugMaxRenderInstanceDefault ]

\* ------------------------------------------------------------ helpers
Min2(a, b) == IF a < b THEN a ELSE b
Max2(a, b) == IF a > b THEN a ELSE b
Abs(a) == IF a < 0 THEN -a ELSE a

\* Python's seq[0:stop]
Slice0(seq, stop) ==
    LET n == Len(seq)
        e == IF stop < 0 THEN Max2(n + stop, 0) ELSE Min2(stop, n)
    IN  SubSeq(seq, 1, e)

\* ------------------------------------------------------------ ct_utils
\* ct_utils.get_iou: intersection over union of two <<x, y, w, h>> boxes,
\* union = area(A) + area(B) - intersection(A, B), 0 for disjoint boxes.
Overlap(a1, alen, b1, blen) ==
    Max2(0, Min2(a1 + alen, b1 + blen) - Max2(a1, b1))

BoxArea(b) == b[3] * b[4]

get_iou(bb1, bb2) ==
    LET inter == Overlap(bb1[1], bb1[3], bb2[1], bb2[3])
                 * Overlap(bb1[2], bb1[4], bb2[2], bb2[4])
    IN  <<inter, BoxArea(bb1) + BoxArea(bb2) - inter>>

\* ct_utils.is_image_file: the extension decides
is_image_file(filename) == filename.ext \in {"jpg", "jpeg", "gif", "png"}

\* iou >= options.iouThreshold
IouAtLeast(iou, iouThreshold) == iou[1] * IouScale >= iouThreshold * iou[2]

\* os.path.dirname of a file path, then of a directory
FileDirName(relativePath) == relativePath.dirs
DirDirName(dirName) ==
    IF Len(dirName) = 0 THEN dirName ELSE SubSeq(dirName, 1, Len(dirName) - 1)

\* ------------------------------------------- separate files into directories
RECURSIVE WalkUp(_, _)
WalkUp(dirName, nLevels) ==
    IF nLevels <= 0 THEN dirName ELSE WalkUp(DirDirName(dirName), nLevels - 1)

RowDirName(row, options) ==
    WalkUp(FileDirName(row.file), options.nDirLevelsFromLeaf)

\* rowsByDirectory is an insertion-ordered dict: a sequence of
\* [dirName, rows], rows being the row indices of the directory in table order
HasDirNever(rbd, dirName) == FALSE
HasDir(rbd, dirName) == \E i \in DOMAIN rbd : rbd[i].dirName = dirName

AppendRow(rbd, dirName, iRow) ==
    IF HasDir(rbd, dirName)
    THEN [i \in DOMAIN rbd |->
            IF rbd[i].dirName = dirName
            THEN [rbd[i] EXCEPT !.rows = Append(@, iRow)]
            ELSE rbd[i]]
    ELSE Append(rbd, [dirName |-> dirName, rows |-> <<iRow>>])

DirKeys(rbd) == [i \in DOMAIN rbd |-> rbd[i].dirName]

\* dirsToSearch = list(rowsByDirectory.keys())[0:options.debugMaxDir]
DirsToSearch(rbd, opts) == Slice0(DirKeys(rbd), opts.debugMaxDir)

RowsOfAnyDir(rbd, dirName) ==
    LET all == UNION { {rbd[i].rows[k] : k \in DOMAIN rbd[i].rows} : i \in DOMAIN rbd }
    IN  [k \in 1..Cardinality(all) |-> k - 1]
RowsOfDir(rbd, dirName) ==
    rbd[CHOOSE i \in DOMAIN rbd : rbd[i].dirName = dirName].rows

EmptyPartition == [rowsByDirectory |-> <<>>, filenameToRow |-> <<>>, error |-> ""]

RECURSIVE SeparateRowsUnchecked(_, _, _, _)
SeparateRowsUnchecked(acc, table, iRow, options) ==
    IF iRow >= Len(table) THEN acc
    ELSE LET row == table[iRow + 1]
             dirName == RowDirName(row, options)
         IN  SeparateRowsUnchecked(
                [rowsByDirectory |-> AppendRow(acc.rowsByDirectory, dirName, iRow),
                 filenameToRow |->
                    [f \in (DOMAIN acc.filenameToRow) \cup {row.file} |->
                        IF f = row.file THEN iRow ELSE acc.filenameToRow[f]],
                 error |-> ""],
                table, iRow + 1, options)

RECURSIVE SeparateRows(_, _, _, _)
SeparateRows(acc, table, iRow, options) ==
    IF acc.error # "" \/ iRow >= Len(table) THEN acc
    ELSE LET row == table[iRow + 1]
             dirName == RowDirName(row, options)
         IN  IF Len(dirName) = 0
             THEN [acc EXCEPT !.error = "assert len(dirName) > 0"]
             ELSE IF row.file \in DOMAIN acc.filenameToRow
             THEN [acc EXCEPT
                     !.rowsByDirectory = AppendRow(@, dirName, iRow),
                     !.error = "assert relativePath not in filenameToRow"]
             ELSE SeparateRows(
                    [rowsByDirectory |-> AppendRow(acc.rowsByDirectory, dirName, iRow),
                     filenameToRow |-> acc.filenameToRow @@ (row.file :> iRow),
                     error |-> ""],
                    table, iRow + 1, options)

\* ------------------------------------------------ find_matches_in_directory
IndexedDetectionOneBased(iDetection, filename, bbox, confidence, category) ==
    [ iDetection |-> iDetection + 1, filename |-> filename, bbox |-> bbox,
      confidence |-> confidence, category |-> category ]
IndexedDetection(iDetection, filename, bbox, confidence, category) ==
    [ iDetection |-> iDetection, filename |-> filename, bbox |-> bbox,
      confidence |-> confidence, category |-> category ]

DetectionLocation(instance, detection, relativeDir) ==
    [ instances |-> <<instance>>, bbox |-> detection.bbox,
      relativeDir |-> relativeDir, sampleImageRelativeFileName |-> <<>> ]

\* area = bbox[2] * bbox[3] is a product of two doubles.  For sides a/20 and
\* b/20 (a <= b, both in 0..21) the rounded product is above the double nearest
\* to a*b/400 for the pairs of RoundsAbove, below it for those of RoundsBelow,
\* and equal to it for every other pair (0.1 * 0.1 = 0.010000000000000002,
\* 0.5 * 0.4 = 0.2).
RoundsAbove ==
    { <<1, 1>>, <<1, 2>>, <<1, 4>>, <<1, 8>>, <<1, 9>>, <<1, 11>>,
      <<1, 15>>, <<1, 16>>, <<1, 18>>, <<1, 21>>, <<2, 2>>, <<2, 4>>,
      <<2, 8>>, <<2, 9>>, <<2, 11>>, <<2, 15>>, <<2, 16>>, <<2, 18>>,
      <<2, 21>>, <<4, 4>>, <<4, 8>>, <<4, 9>>, <<4, 11>>, <<4, 15>>,
      <<4, 16>>, <<4, 18>>, <<4, 21>>, <<8, 8>>, <<8, 9>>, <<8, 11>>,
      <<8, 15>>, <<8, 16>>, <<8, 18>>, <<8, 21>>, <<9, 11>>, <<9, 13>>,
      <<9, 16>>, <<9, 21>>, <<11, 11>>, <<11, 13>>, <<11, 15>>, <<11, 16>>,
      <<11, 18>>, <<11, 21>>, <<13, 13>>, <<13, 15>>, <<13, 18>>, <<13, 21>>,
      <<15, 16>>, <<15, 21>>, <<16, 16>>, <<16, 18>>, <<16, 21>>, <<18, 21>> }

RoundsBelow ==
    { <<1, 7>>, <<1, 14>>, <<2, 7>>, <<2, 14>>, <<3, 15>>, <<4, 7>>,
      <<4, 14>>, <<6, 15>>, <<7, 7>>, <<7, 8>>, <<7, 13>>, <<7, 14>>,
      <<7, 15>>, <<7, 16>>, <<7, 19>>, <<8, 14>>, <<12, 15>>, <<13, 14>>,
      <<13, 19>>, <<14, 14>>, <<14, 15>>, <<14, 16>>, <<14, 19>>, <<15, 19>>,
      <<17, 17>>, <<19, 21>> }

\* the product as <<exact product in 1/400ths, side of the rounded product>>
FloatProduct(a, b) ==
    LET sides == <<Min2(a, b), Max2(a, b)>>
    IN  <<a * b, IF sides \in RoundsAbove THEN 1
                 ELSE IF sides \in RoundsBelow THEN -1 ELSE 0>>

\* area > limit and area < limit, limit being the double nearest to limit/400
FloatGreater(area, limit) == area[1] > limit \/ (area[1] = limit /\ area[2] > 0)
FloatLess(area, limit) == area[1] < limit \/ (area[1] = limit /\ area[2] < 0)

\* if area > options.maxSuspiciousDetectionSize: continue
TooBigOrEqual(area, options) == ~FloatLess(area, options.maxSuspiciousDetectionSize)
TooBig(area, options) == FloatGreater(area, options.maxSuspiciousDetectionSize)

\* the loop over candidateDetections and the creation of a new candidate
MatchInstanceFirstOnly(candidateDetections, instance, detection, dirName, options) ==
    LET Matches(candidate) ==
            IouAtLeast(get_iou(instance.bbox, candidate.bbox), options.iouThreshold)
        matching == {i \in DOMAIN candidateDetections : Matches(candidateDetections[i])}
        first == CHOOSE i \in matching : \A k \in matching : i <= k
    IN  IF matching # {}
        THEN [candidateDetections EXCEPT ![first].instances = Append(@, instance)]
        ELSE Append(candidateDetections, DetectionLocation(instance, detection, dirName))
MatchInstanceJoinsAll(candidateDetections, instance, detection, dirName, options) ==
    LET Matches(candidate) ==
            IouAtLeast(get_iou(instance.bbox, candidate.bbox), options.iouThreshold)
        bFoundSimilarDetection ==
            \E i \in DOMAIN candidateDetections : Matches(candidateDetections[i])
        appended ==
            [i \in DOMAIN candidateDetections |->
                [candidateDetections[i] EXCEPT !.instances = Append(@, instance)]]
    IN  IF bFoundSimilarDetection THEN appended
        ELSE Append(candidateDetections, DetectionLocation(instance, detection, dirName))
MatchInstanceMovingBox(candidateDetections, instance, detection, dirName, options) ==
    LET Matches(candidate) ==
            IouAtLeast(get_iou(instance.bbox, candidate.bbox), options.iouThreshold)
        bFoundSimilarDetection ==
            \E i \in DOMAIN candidateDetections : Matches(candidateDetections[i])
        appended ==
            [i \in DOMAIN candidateDetections |->
                IF Matches(candidateDetections[i])
                THEN [candidateDetections[i] EXCEPT !.instances = Append(@, instance),
                                                    !.bbox = instance.bbox]
                ELSE candidateDetections[i]]
    IN  IF bFoundSimilarDetection THEN appended
        ELSE Append(appended, DetectionLocation(instance, detection, dirName))
MatchInstance(candidateDetections, instance, detection, dirName, options) ==
    LET Matches(candidate) ==
            IouAtLeast(get_iou(instance.bbox, candidate.bbox), options.iouThreshold)
        bFoundSimilarDetection ==
            \E i \in DOMAIN candidateDetections : Matches(candidateDetections[i])
        appended ==
            [i \in DOMAIN candidateDetections |->
                IF Matches(candidateDetections[i])
                THEN [candidateDetections[i] EXCEPT !.instances = Append(@, instance)]
                ELSE candidateDetections[i]]
    IN  IF bFoundSimilarDetection THEN appended
        ELSE Append(appended, DetectionLocation(instance, detection, dirName))

\* the body of "for iDetection, detection in enumerate(detections)"
ScanDetectionAnyClass(acc, row, iDetection, dirName, options) ==
    LET detection == row.detections[iDetection + 1]
        confidence == detection.conf
        bbox == detection.bbox
        area == FloatProduct(bbox[4], bbox[3])
    IN  IF ~({"category", "conf", "bbox"} \subseteq DOMAIN detection)
        THEN [acc EXCEPT !.error = "assert 'category' in detection and 'conf' in detection and 'bbox' in detection"]
        ELSE IF ~(confidence >= 0 /\ confidence <= ConfScale)
        THEN [acc EXCEPT !.error = "assert confidence >= 0.0 and confidence <= 1.0"]
        ELSE IF confidence < options.confidenceMin THEN acc
        ELSE IF confidence > options.confidenceMax THEN acc
        ELSE IF ~(~FloatLess(area, 0) /\ ~FloatGreater(area, BoxScale * BoxScale))
        THEN [acc EXCEPT !.error = "assert area >= 0.0 and area <= 1.0"]
        ELSE IF TooBig(area, options) THEN acc
        ELSE [acc EXCEPT !.candidateDetections =
                MatchInstance(@,
                    IndexedDetection(iDetection, row.file, bbox, confidence,
                                     detection.category),
                    detection, dirName, options)]
ScanDetection(acc, row, iDetection, dirName, options) ==
    LET detection == row.detections[iDetection + 1]
        confidence == detection.conf
        bbox == detection.bbox
        area == FloatProduct(bbox[4], bbox[3])
    IN  IF ~({"category", "conf", "bbox"} \subseteq DOMAIN detection)
        THEN [acc EXCEPT !.error = "assert 'category' in detection and 'conf' in detection and 'bbox' in detection"]
        ELSE IF ~(confidence >= 0 /\ confidence <= ConfScale)
        THEN [acc EXCEPT !.error = "assert confidence >= 0.0 and confidence <= 1.0"]
        ELSE IF confidence < options.confidenceMin THEN acc
        ELSE IF confidence > options.confidenceMax THEN acc
        ELSE IF detection.category \in options.excludeClasses THEN acc
        ELSE IF ~(~FloatLess(area, 0) /\ ~FloatGreater(area, BoxScale * BoxScale))
        THEN [acc EXCEPT !.error = "assert area >= 0.0 and area <= 1.0"]
        ELSE IF TooBig(area, options) THEN acc
        ELSE [acc EXCEPT !.candidateDetections =
                MatchInstance(@,
                    IndexedDetection(iDetection, row.file, bbox, confidence,
                                     detection.category),
                    detection, dirName, options)]

RECURSIVE ScanDetections(_, _, _, _, _)
ScanDetections(acc, row, iDetection, dirName, options) ==
    IF acc.error # "" \/ iDetection >= Len(row.detections) THEN acc
    ELSE ScanDetections(ScanDetection(acc, row, iDetection, dirName, options),
                        row, iDetection + 1, dirName, options)

\* the body of "for iDirectoryRow, row in rows.iterrows()"
ScanRow(acc, row, dirName, options) ==
    IF ~is_image_file(row.file) THEN acc
    ELSE IF row.max_detection_conf < options.confidenceMin THEN acc
    ELSE IF ~(Len(row.detections) > 0)
    THEN [acc EXCEPT !.error = "assert len(detections) > 0"]
    ELSE ScanDetections(acc, row, 0, dirName, options)

RECURSIVE ScanRows(_, _, _, _, _, _)
ScanRows(acc, table, rows, k, dirName, options) ==
    IF acc.error # "" \/ k > Len(rows) THEN acc
    ELSE ScanRows(ScanRow(acc, table[rows[k] + 1], dirName, options),
                  table, rows, k + 1, dirName, options)

\* returns [candidateDetections, error]; error is "" when no assertion failed
find_matches_in_directory(dirName, options, rbd, table) ==
    ScanRows([candidateDetections |-> <<>>, error |-> ""],
             table, RowsOfDir(rbd, dirName), 1, dirName, options)

\* ------------------------------------------------ find suspicious locations
\* if nOccurrences < options.occurrenceThreshold: continue
IsSuspiciousStrict(candidateLocation, options) ==
    ~(Len(candidateLocation.instances) <= options.occurrenceThreshold)
IsSuspicious(candidateLocation, options) ==
    ~(Len(candidateLocation.instances) < options.occurrenceThreshold)

SuspiciousDetectionsThisDir(candidateDetectionsThisDir, options) ==
    SelectSeq(candidateDetectionsThisDir, LAMBDA c : IsSuspicious(c, options))

\* ------------------------------------------------ update_detection_table
\* loop order of the three nested loops of pass 1
RECURSIVE InstanceIndex(_, _, _)
InstanceIndex(susp, iDir, iDetectionEvent) ==
    IF iDir >= Len(susp) THEN <<>>
    ELSE IF iDetectionEvent >= Len(susp[iDir + 1])
    THEN InstanceIndex(susp, iDir + 1, 0)
    ELSE [k \in 1..Len(susp[iDir + 1][iDetectionEvent + 1].instances) |->
            <<iDir, iDetectionEvent, k - 1>>]
         \o InstanceIndex(susp, iDir, iDetectionEvent + 1)

\* detectionToModify['conf'] = -1 * detectionToModify['conf']
SwitchDetection(rowDetections, iDetection) ==
    [rowDetections EXCEPT ![iDetection + 1].conf = -1 * @]

\* if detectionToModify['conf'] >= 0
NotYetSwitchedAlways(conf) == TRUE
NotYetSwitched(conf) == conf >= 0

\* the body of "for iInstance, instance in enumerate(detectionEvent.instances)"
NegateInstance(acc, locationBbox, instance, filenameToRow, options) ==
    IF ~IouAtLeast(get_iou(instance.bbox, locationBbox), options.iouThreshold)
    THEN [acc EXCEPT !.error = "assert iou >= options.iouThreshold"]
    ELSE IF instance.filename \notin DOMAIN filenameToRow
    THEN [acc EXCEPT !.error = "assert instance.filename in filenameToRow"]
    ELSE LET iRow == filenameToRow[instance.filename]
             rowDetections == acc.table[iRow + 1].detections
         IN  IF instance.iDetection + 1 \notin DOMAIN rowDetections
             THEN [acc EXCEPT !.error = "IndexError"]
             ELSE LET detectionToModify == rowDetections[instance.iDetection + 1]
                  IN  IF SubSeq(instance.bbox, 1, 3) # SubSeq(detectionToModify.bbox, 1, 3)
                      THEN [acc EXCEPT !.error = "assert bounding box matches"]
                      ELSE IF NotYetSwitched(detectionToModify.conf)
                      THEN [acc EXCEPT
                              !.table[iRow + 1].detections =
                                  SwitchDetection(@, instance.iDetection),
                              !.nBboxChanges = @ + 1]
                      ELSE acc

RECURSIVE Pass1(_, _, _, _, _, _)
Pass1(acc, susp, index, k, filenameToRow, options) ==
    IF acc.error # "" \/ k > Len(index) THEN acc
    ELSE LET detectionEvent == susp[index[k][1] + 1][index[k][2] + 1]
         IN  Pass1(NegateInstance(acc, detectionEvent.bbox,
                                  detectionEvent.instances[index[k][3] + 1],
                                  filenameToRow, options),
                   susp, index, k + 1, filenameToRow, options)

MaxConfUnsigned(detections) ==
    CHOOSE p \in {Abs(detections[i].conf) : i \in DOMAIN detections} :
        \A i \in DOMAIN detections : p >= Abs(detections[i].conf)
MaxConf(detections) ==
    CHOOSE p \in {detections[i].conf : i \in DOMAIN detections} :
        \A i \in DOMAIN detections : p >= detections[i].conf

NumNegative(detections) ==
    Cardinality({i \in DOMAIN detections : detections[i].conf < 0})

\* assert maxP < maxPOriginal
OnlyLessLikelyUnchecked(maxP, maxPOriginal) == TRUE
OnlyLessLikely(maxP, maxPOriginal) == maxP < maxPOriginal

\* the body of "for iRow, row in detectionResults.iterrows()"
UpdateMaxP(acc, iRow, options) ==
    LET row == acc.table[iRow + 1]
        detections == row.detections
        maxPOriginal == row.max_detection_conf
        maxP == MaxConf(detections)
    IN  IF Len(detections) = 0 THEN acc
        ELSE IF ~(maxPOriginal >= 0)
        THEN [acc EXCEPT !.error = "assert maxPOriginal >= 0"]
        ELSE IF \E i \in DOMAIN detections : "conf" \notin DOMAIN detections[i]
        THEN [acc EXCEPT !.error = "KeyError: 'conf'"]
        ELSE IF Abs(maxP - maxPOriginal) > Tolerance
        THEN IF ~OnlyLessLikely(maxP, maxPOriginal)
             THEN [acc EXCEPT !.error = "assert maxP < maxPOriginal"]
             ELSE [acc EXCEPT
                     !.table[iRow + 1].max_detection_conf = maxP,
                     !.error = IF NumNegative(detections) > 0 THEN ""
                               ELSE "assert nNegative > 0"]
        ELSE acc

RECURSIVE Pass2(_, _, _)
Pass2(acc, iRow, options) ==
    IF acc.error # "" \/ iRow >= Len(acc.table) THEN acc
    ELSE Pass2(UpdateMaxP(acc, iRow, options), iRow + 1, options)

\* returns [table, nBboxChanges, error]: the table as the call leaves it
update_detection_table(table, susp, filenameToRow, options) ==
    Pass2(Pass1([table |-> table, nBboxChanges |-> 0, error |-> ""],
                susp, InstanceIndex(susp, 0, 0), 1, filenameToRow, options),
          0, options)

\* ------------------------------------------------ filtering folder, review file
\* 'dir{:0>4d}_det{:0>4d}.jpg'.format(iDir, iDetection)
SampleImageName(iDir, iDetection) == <<iDir, iDetection>>

\* loop order of the two nested loops of the export
RECURSIVE EventIndex(_, _)
EventIndex(susp, iDir) ==
    IF iDir >= Len(susp) THEN <<>>
    ELSE [k \in 1..Len(susp[iDir + 1]) |-> <<iDir, k - 1>>]
         \o EventIndex(susp, iDir + 1)

\* the body of "for iDetection, detection in enumerate(suspiciousDetectionsThisDir)"
RenderSampleUnnamed(acc, iDir, iDetection, imageFiles) ==
    LET instance == acc.suspiciousDetections[iDir + 1][iDetection + 1].instances[1]
    IN  IF instance.filename \notin imageFiles
        THEN [acc EXCEPT !.error = "assert os.path.isfile(inputFullPath)"]
        ELSE [acc EXCEPT !.files = @ \cup {SampleImageName(iDir, iDetection)}]
RenderSample(acc, iDir, iDetection, imageFiles) ==
    LET detection == acc.suspiciousDetections[iDir + 1][iDetection + 1]
        instance == detection.instances[1]
        outputRelativePath == SampleImageName(iDir, iDetection)
    IN  IF instance.filename \notin imageFiles
        THEN [acc EXCEPT !.error = "assert os.path.isfile(inputFullPath)"]
        ELSE [acc EXCEPT
                !.files = @ \cup {outputRelativePath},
                !.suspiciousDetections[iDir + 1][iDetection + 1]
                    .sampleImageRelativeFileName = outputRelativePath]

RECURSIVE RenderSamples(_, _, _, _)
RenderSamples(acc, index, k, imageFiles) ==
    IF acc.error # "" \/ k > Len(index) THEN acc
    ELSE RenderSamples(RenderSample(acc, index[k][1], index[k][2], imageFiles),
                       index, k + 1, imageFiles)

\* ------------------------------------------- render_images_for_directory
\* the files written under options.outputBase: <<>> is index.html, <<iDir>>
\* is dirNNNN/index.html, <<iDir, iDetection>> is
\* dirNNNN/detectionNNNN/index.html and <<iDir, iDetection, iInstance>> is
\* dirNNNN/detectionNNNN/imageNNNN.jpg
\* "for iInstance, instance in enumerate(detection.instances)" with its break
nInstancesRendered(detection, options) ==
    IF options.debugMaxRenderInstance >= 0
    THEN Min2(options.debugMaxRenderInstance, Len(detection.instances))
    ELSE Len(detection.instances)

\* the body of "for iDetection, detection in enumerate(suspiciousDetectionsThisDir)"
RenderDetection(acc, iDir, iDetection, detection, options, imageFiles) ==
    IF ~(Len(detection.instances) >= options.occurrenceThreshold)
    THEN [acc EXCEPT !.error = "assert (nInstances >= options.occurrenceThreshold)"]
    ELSE LET n == nInstancesRendered(detection, options)
             rendered ==
                 { <<iDir, iDetection, iInstance>> :
                   iInstance \in { i \in 0..(n - 1) :
                                    detection.instances[i + 1].filename \in imageFiles } }
             written == [acc EXCEPT !.files = @ \cup rendered \cup {<<iDir, iDetection>>}]
         IN  \* imageInfo[0]
             IF n = 0
             THEN [written EXCEPT !.error = "IndexError: list index out of range"]
             ELSE written

RECURSIVE RenderDetections(_, _, _, _, _, _)
RenderDetections(acc, iDir, iDetection, detections, options, imageFiles) ==
    IF acc.error # "" \/ iDetection >= Len(detections) THEN acc
    ELSE IF /\ options.debugMaxRenderDetection > 0
            /\ iDetection > options.debugMaxRenderDetection
    THEN acc
    ELSE RenderDetections(
             RenderDetection(acc, iDir, iDetection, detections[iDetection + 1],
                             options, imageFiles),
             iDir, iDetection + 1, detections, options, imageFiles)

\* directoryHtmlFile is <<>> for None
render_images_for_directory(iDir, suspicious, options, imageFiles) ==
    LET none == [files |-> {}, directoryHtmlFile |-> <<>>, error |-> ""]
    IN  IF options.debugMaxRenderDir > 0 /\ iDir > options.debugMaxRenderDir THEN none
        ELSE IF Len(suspicious[iDir + 1]) = 0 THEN none
        ELSE LET r == RenderDetections(none, iDir, 0, suspicious[iDir + 1],
                                       options, imageFiles)
             IN  IF r.error # "" THEN r
                 ELSE [r EXCEPT !.files = @ \cup {<<iDir>>},
                                !.directoryHtmlFile = <<iDir>>]

\* "for iDir in range(nDirs)": the directories one after the other
RECURSIVE RenderDirectories(_, _, _, _, _)
RenderDirectories(acc, iDir, suspicious, options, imageFiles) ==
    IF acc.error # "" \/ iDir >= Len(suspicious) THEN acc
    ELSE LET r == render_images_for_directory(iDir, suspicious, options, imageFiles)
         IN  RenderDirectories(
                 [files |-> acc.files \cup r.files,
                  directoryHtmlFiles |-> Append(acc.directoryHtmlFiles,
                                                r.directoryHtmlFile),
                  iFailed |-> IF r.error # "" THEN iDir ELSE acc.iFailed,
                  error |-> r.error],
                 iDir + 1, suspicious, options, imageFiles)

\* the candidates of allCandidateDetections that reached
\* occurrenceThreshold are the very objects of suspiciousDetections: a sample
\* name set on a suspicious detection shows on its candidate
WithSampleNames(allCandidates, named, options) ==
    [iDir \in DOMAIN allCandidates |->
        [c \in DOMAIN allCandidates[iDir] |->
            IF IsSuspicious(allCandidates[iDir][c], options)
            THEN named[iDir][Cardinality({ d \in 1..c :
                                IsSuspicious(allCandidates[iDir][d], options) })]
            ELSE allCandidates[iDir][c]]]

\* jsonpickle.encode / jsonpickle.decode of the list of lists of
\* DetectionLocation: every object becomes a dict of its attributes tagged
\* with its class, and decoding rebuilds the object from that dict
JsonObject(className, obj) == ("py/object" :> className) @@ obj
JsonRestore(dict) == [f \in (DOMAIN dict) \ {"py/object"} |-> dict[f]]

JsonEncodeLocation(location) ==
    JsonObject("DetectionLocation",
        [location EXCEPT !.instances =
            [i \in DOMAIN @ |-> JsonObject("IndexedDetection", @[i])]])

JsonDecodeLocation(dict) ==
    LET location == JsonRestore(dict)
    IN  [location EXCEPT !.instances = [i \in DOMAIN @ |-> JsonRestore(@[i])]]

JsonEncode(susp) ==
    [d \in DOMAIN susp |-> [c \in DOMAIN susp[d] |-> JsonEncodeLocation(susp[d][c])]]

JsonDecode(sIn) ==
    [d \in DOMAIN sIn |-> [c \in DOMAIN sIn[d] |-> JsonDecodeLocation(sIn[d][c])]]

\* reload: is the candidate still valid after manual review?
bValidDetectionIgnoringList(detection, fileList, folderFiles) ==
    detection.sampleImageRelativeFileName \in folderFiles
bValidDetectionNoBaseDir(detection, fileList, folderFiles) ==
    /\ Len(fileList) # 0
    /\ detection.sampleImageRelativeFileName \in fileList[1]
bValidDetection(detection, fileList, folderFiles) ==
    IF Len(fileList) = 0
    THEN detection.sampleImageRelativeFileName \in folderFiles
    ELSE detection.sampleImageRelativeFileName \in fileList[1]

DetectionsFilteredComplement(detections, fileList, folderFiles) ==
    SelectSeq(detections, LAMBDA d : ~bValidDetection(d, fileList, folderFiles))
DetectionsFiltered(detections, fileList, folderFiles) ==
    SelectSeq(detections, LAMBDA d : bValidDetection(d, fileList, folderFiles))

\* ------------------------------------------------------------ state
VARIABLES
    options,                 \* the RepeatDetectionOptions of the current run
    inputFile,               \* the detector output file (inputFilename)
    images,                  \* the image files that exist under imageBase
    detectionResults,        \* the live table of the current run
    rowsByDirectory,
    filenameToRow,
    dirsToSearch,
    allCandidateDetections,
    suspiciousDetections,
    nBboxChanges,            \* of the last update_detection_table call
    outputFile,              \* <<>> or <<the table written by write_api_results>>
    filteringDirs,           \* the filtering_<date> folders, oldest first
    htmlFiles,               \* the pages and images rendered under options.outputBase
    toReturn,                \* <<>> or <<suspiciousDetections of the returned results>>
    pbar,                    \* options.pbar: <<>> (None) or <<number of updates>>
    tasks,                   \* the find_matches_in_directory calls of the worker pool
    completed,               \* the pool's tasks in the order in which they finished
    pc,                      \* position in find_repeat_detections
    error                    \* the assertion that ended the run, or ""

vars == << options, inputFile, images, htmlFiles, detectionResults, rowsByDirectory,
           filenameToRow, dirsToSearch, allCandidateDetections,
           suspiciousDetections, nBboxChanges, outputFile, filteringDirs,
           toReturn, pbar, tasks, completed, pc, error >>

poolVars == << pbar, tasks, completed >>

\* ------------------------------------------------------------ inputs
Detection(category, conf, bbox) ==
    [category |-> category, conf |-> conf, bbox |-> bbox]

ImageFile(dir, name) == [dirs |-> <<dir>>, name |-> name, ext |-> "jpg"]

DetectionRecord(file, detections, maxConf) ==
    [file |-> file, max_detection_conf |-> maxConf, detections |-> detections]

\* boxes: X and Y overlap D by one half and each other by one fifth; Big has
\* exactly the default maxSuspiciousDetectionSize, Huge is above it
BoxX == <<0, 0, 3, 1>>
BoxY == <<2, 0, 3, 1>>
BoxD == <<1, 0, 3, 1>>
BoxBig == <<0, 0, 10, 8>>
BoxHuge == <<0, 0, 10, 10>>
\* (0.1, 0.1, 0.05, 0.05)
BoxScenario == <<2, 2, 1, 1>>

RowKinds ==
    { [dir |-> "A", max |-> 900, detections |-> <<Detection(1, 900, BoxX)>>],
      [dir |-> "A", max |-> 900,
       detections |-> <<Detection(1, 900, BoxX), Detection(2, 900, BoxY)>>],
      [dir |-> "A", max |-> 900,
       detections |-> <<Detection(1, 900, BoxD), Detection(1, 500, BoxX)>>],
      [dir |-> "A", max |-> 900,
       detections |-> <<Detection(1, 900, BoxBig), Detection(1, 900, BoxHuge)>>],
      [dir |-> "A", max |-> 0, detections |-> <<>>],
      [dir |-> "B", max |-> 900, detections |-> <<Detection(1, 900, BoxX)>>],
      \* a cached maximum below, and one above, the detections' maximum
      [dir |-> "A", max |-> 850,
       detections |-> <<Detection(1, 900, BoxX), Detection(1, 900, BoxHuge)>>],
      [dir |-> "A", max |-> 950, detections |-> <<Detection(1, 900, BoxX)>>] }

TableOf(kinds) ==
    [i \in DOMAIN kinds |->
        DetectionRecord(ImageFile(kinds[i].dir, i), kinds[i].detections, kinds[i].max)]

SmallTables ==
    { TableOf(kinds) : kinds \in UNION { [1..n -> RowKinds] : n \in 1..MaxRows } }

SmallOptions ==
    { [RepeatDetectionOptions EXCEPT
          !.occurrenceThreshold = 2,
          !.iouThreshold = iou,
          !.debugMaxDir = dbg] :
      iou \in {5}, dbg \in {debugMaxDirDefault, 2} }

\* directory A with n images, each with one detection at (0.1,0.1,0.05,0.05),
\* confidence 0.9, category 1; optionally followed by one image of directory B
ScenarioSizes == {10, 20}

ScenarioTable(n, bOtherDir) ==
    [i \in 1..(n + (IF bOtherDir THEN 1 ELSE 0)) |->
        IF i <= n
        THEN DetectionRecord(ImageFile("A", i),
                             <<Detection(1, 900, BoxScenario)>>, 900)
        ELSE DetectionRecord(ImageFile("B", i), <<Detection(1, 900, BoxX)>>, 900)]

ScenarioTables ==
    { ScenarioTable(n, b) : n \in ScenarioSizes, b \in BOOLEAN }

\* occurrenceThreshold=15, iouThreshold=0.9, confidenceMin=0.85; and the
\* options as RepeatDetectionOptions() gives them
ScenarioOptions ==
    { [RepeatDetectionOptions EXCEPT !.confidenceMin = 850, !.debugMaxDir = dbg] :
      dbg \in {debugMaxDirDefault, 2} }
    \cup {RepeatDetectionOptions}

\* ---- tables that violate the input contract, and the options beside the
\* defaults that decide how the directories are searched
\* a box wider than the image: relative area 1.05
BoxOver == <<0, 0, 21, 20>>

EdgeRowKinds ==
    { [dir |-> "A", max |-> 900, detections |-> <<Detection(1, 900, BoxX)>>],
      [dir |-> "B", max |-> 900, detections |-> <<Detection(1, 900, BoxX)>>],
      \* confidence 1.1
      [dir |-> "B", max |-> 900, detections |-> <<Detection(1, 1100, BoxX)>>],
      \* relative area above 1, on a detection below confidenceMin
      [dir |-> "A", max |-> 900,
       detections |-> <<Detection(1, 900, BoxX), Detection(1, 500, BoxOver)>>],
      \* confidence -0.1, on an image whose cached maximum is below confidenceMin
      [dir |-> "A", max |-> 500,
       detections |-> <<Detection(1, 500, BoxX), Detection(1, -100, BoxX)>>],
      \* no 'category'
      [dir |-> "B", max |-> 900, detections |-> <<[conf |-> 900, bbox |-> BoxX]>>],
      \* a cached maximum above confidenceMin without any detection
      [dir |-> "A", max |-> 900, detections |-> <<>>],
      \* relative area above 1
      [dir |-> "B", max |-> 900, detections |-> <<Detection(1, 900, BoxOver)>>] }

EdgeTables == { TableOf(kinds) : kinds \in [1..2 -> EdgeRowKinds] }

EdgeOptions ==
    { [RepeatDetectionOptions EXCEPT
          !.occurrenceThreshold = 2,
          !.iouThreshold = 5,
          !.debugMaxDir = dbg,
          !.bParallelizeComparisons = par[1],
          !.nWorkers = par[2]] :
      dbg \in {debugMaxDirDefault, 2},
      par \in { <<FALSE, nWorkersDefault>>, <<FALSE, 0>>, <<TRUE, 0>>,
                <<TRUE, 1>>, <<TRUE, nWorkersDefault>> } }
    \cup
    \* confidenceMin above confidenceMax
    { [RepeatDetectionOptions EXCEPT
          !.occurrenceThreshold = 2,
          !.iouThreshold = 5,
          !.debugMaxDir = 2,
          !.confidenceMin = 900,
          !.confidenceMax = 800] }

\* 0.1 x 0.1: the exact area is 0.01, the computed product 0.010000000000000002
BoxTenth == <<0, 0, 2, 2>>

\* confidences below confidenceMin, between the bounds and above confidenceMax,
\* and an excluded class, with bounds strictly inside [0, 1]
BoundsRowKinds ==
    { [dir |-> "A", max |-> 900,
       detections |-> <<Detection(1, 600, BoxX), Detection(1, 900, BoxX)>>],
      [dir |-> "A", max |-> 600,
       detections |-> <<Detection(1, 600, BoxX), Detection(1, 400, BoxX),
                         Detection(2, 600, BoxX)>>],
      [dir |-> "A", max |-> 400, detections |-> <<Detection(1, 400, BoxX)>>],
      [dir |-> "A", max |-> 600, detections |-> <<Detection(2, 600, BoxX)>>],
      [dir |-> "A", max |-> 600, detections |-> <<Detection(1, 600, BoxTenth)>>] }

BoundsTables == { TableOf(kinds) : kinds \in [1..2 -> BoundsRowKinds] }

BoundsOptions ==
    { [RepeatDetectionOptions EXCEPT
          !.occurrenceThreshold = 2,
          !.iouThreshold = 5,
          !.debugMaxDir = 2,
          !.bParallelizeComparisons = FALSE,
          !.confidenceMin = 500,
          !.confidenceMax = 850,
          !.excludeClasses = {2}],
      \* an IoU threshold above 1, which no pair of boxes reaches
      [RepeatDetectionOptions EXCEPT
          !.occurrenceThreshold = 1,
          !.iouThreshold = IouScale + 1,
          !.debugMaxDir = 2,
          !.bParallelizeComparisons = FALSE,
          !.confidenceMin = 500],
      \* maxSuspiciousDetectionSize = 0.01, the exact area of BoxTenth
      [RepeatDetectionOptions EXCEPT
          !.occurrenceThreshold = 2,
          !.iouThreshold = 5,
          !.debugMaxDir = 2,
          !.bParallelizeComparisons = FALSE,
          !.confidenceMin = 500,
          !.maxSuspiciousDetectionSize = BoxArea(BoxTenth)] }

\* a file path that repeats, a file outside any directory, nested directories
ImageFileIn(dirs, name) == [dirs |-> dirs, name |-> name, ext |-> "jpg"]

PartitionTables ==
    { << DetectionRecord(ImageFile("A", 1), <<Detection(1, 900, BoxX)>>, 900),
         DetectionRecord(ImageFile("B", 2), <<Detection(1, 900, BoxX)>>, 900),
         DetectionRecord(ImageFile("A", 1), <<Detection(1, 900, BoxX)>>, 900) >>,
      << DetectionRecord(ImageFile("A", 1), <<Detection(1, 900, BoxX)>>, 900),
         DetectionRecord(ImageFileIn(<<>>, 2), <<Detection(1, 900, BoxX)>>, 900) >>,
      << DetectionRecord(ImageFileIn(<<"S", "A">>, 1), <<Detection(1, 900, BoxX)>>, 900),
         DetectionRecord(ImageFileIn(<<"S", "B">>, 2), <<Detection(1, 900, BoxX)>>, 900),
         DetectionRecord(ImageFileIn(<<"T", "A">>, 3), <<Detection(1, 900, BoxX)>>, 900) >>,
      << DetectionRecord(ImageFile("A", 1), <<Detection(1, 900, BoxX)>>, 900),
         DetectionRecord(ImageFile("A", 2), <<Detection(1, 900, BoxX)>>, 900) >> }

PartitionOptions ==
    { [RepeatDetectionOptions EXCEPT
          !.occurrenceThreshold = 2,
          !.iouThreshold = 5,
          !.debugMaxDir = 2,
          !.nDirLevelsFromLeaf = n] : n \in {0, 1} }

FilesOf(table) == { table[i].file : i \in DOMAIN table }

\* ---- runs with options.bRenderHtml: a directory with a repeated detection
\* beside one without, and two directories with a repeated detection each
RenderTables ==
    { << DetectionRecord(ImageFile("A", 1), <<Detection(1, 900, BoxX)>>, 900),
         DetectionRecord(ImageFile("A", 2), <<Detection(1, 900, BoxX)>>, 900),
         DetectionRecord(ImageFile("B", 3), <<Detection(1, 900, BoxX)>>, 900) >>,
      << DetectionRecord(ImageFile("A", 1), <<Detection(1, 900, BoxX)>>, 900),
         DetectionRecord(ImageFile("A", 2), <<Detection(1, 900, BoxX)>>, 900),
         DetectionRecord(ImageFile("B", 3), <<Detection(1, 900, BoxX)>>, 900),
         DetectionRecord(ImageFile("B", 4), <<Detection(1, 900, BoxX)>>, 900) >> }

RenderOptions ==
    { [RepeatDetectionOptions EXCEPT
          !.occurrenceThreshold = 2,
          !.iouThreshold = 5,
          !.bRenderHtml = TRUE,
          !.bParallelizeRendering = par[1],
          !.bParallelizeComparisons = par[2],
          !.nWorkers = par[3]] :
      par \in { <<TRUE, TRUE, nWorkersDefault>>, <<FALSE, TRUE, nWorkersDefault>>,
                <<FALSE, FALSE, nWorkersDefault>>, <<TRUE, FALSE, 0>>,
                <<FALSE, FALSE, 0>> } }

\* ---- a reload-mode run whose review file was written by an earlier
\* discover-mode run on the same table, possibly with another debugMaxDir:
\* the filtering folder that discover-mode run left
ReviewFolderOf(table, opts) ==
    LET rbd == SeparateRows(EmptyPartition, table, 0, opts).rowsByDirectory
        dirs == DirsToSearch(rbd, opts)
        susp == [iDir \in DOMAIN dirs |->
                    SuspiciousDetectionsThisDir(
                        find_matches_in_directory(dirs[iDir], opts, rbd,
                                                  table).candidateDetections,
                        opts)]
        r == RenderSamples([suspiciousDetections |-> susp, files |-> {}, error |-> ""],
                           EventIndex(susp, 0), 1, FilesOf(table))
    IN  [files |-> r.files, index |-> <<JsonEncode(r.suspiciousDetections)>>]

ReviewedTable ==
    << DetectionRecord(ImageFile("A", 1), <<Detection(1, 900, BoxX)>>, 900),
       DetectionRecord(ImageFile("A", 2), <<Detection(1, 900, BoxX)>>, 900),
       DetectionRecord(ImageFile("B", 3), <<Detection(1, 900, BoxX)>>, 900),
       DetectionRecord(ImageFile("B", 4), <<Detection(1, 900, BoxX)>>, 900) >>

ReviewOptions ==
    [RepeatDetectionOptions EXCEPT
        !.occurrenceThreshold = 2, !.iouThreshold = 5, !.debugMaxDir = 2]

ReloadOptions ==
    { [ReviewOptions EXCEPT !.debugMaxDir = dbg, !.filterFileToLoad = <<1>>] :
      dbg \in {debugMaxDirDefault, 2} }

Init ==
    /\ \/ /\ \/ /\ inputFile \in SmallTables
                /\ options \in SmallOptions
                /\ images = FilesOf(inputFile)
             \/ /\ inputFile \in ScenarioTables
                /\ options \in ScenarioOptions
                /\ images = FilesOf(inputFile)
             \/ /\ inputFile \in EdgeTables
                /\ options \in EdgeOptions
                /\ images \in { FilesOf(inputFile),
                                 FilesOf(inputFile) \ {inputFile[1].file} }
             \/ /\ inputFile \in PartitionTables
                /\ options \in PartitionOptions
                /\ images = FilesOf(inputFile)
             \/ /\ inputFile \in BoundsTables
                /\ options \in BoundsOptions
                /\ images = FilesOf(inputFile)
             \/ /\ inputFile \in RenderTables
                /\ options \in RenderOptions
                /\ images \in { FilesOf(inputFile),
                                 FilesOf(inputFile) \ {inputFile[2].file} }
          /\ filteringDirs = <<>>
       \/ /\ inputFile = ReviewedTable
          /\ options \in ReloadOptions
          /\ images = FilesOf(inputFile)
          /\ filteringDirs = <<ReviewFolderOf(ReviewedTable, ReviewOptions)>>
    /\ detectionResults = <<>>
    /\ rowsByDirectory = <<>>
    /\ filenameToRow = <<>>
    /\ dirsToSearch = <<>>
    /\ allCandidateDetections = <<>>
    /\ suspiciousDetections = <<>>
    /\ nBboxChanges = 0
    /\ outputFile = <<>>
    /\ htmlFiles = {}
    /\ toReturn = <<>>
    /\ pbar = <<>>
    /\ tasks = <<>>
    /\ completed = <<>>
    /\ pc = "start"
    /\ error = ""

\* ------------------------------------------------------------ actions
Fail(message) ==
    /\ pc' = "failed"
    /\ error' = message

bReload == Len(options.filterFileToLoad) > 0

\* detectionResults, otherFields = load_api_results(inputFilename, ...)
LoadFile ==
    /\ pc = "start"
    /\ detectionResults' = inputFile
    /\ pc' = "loaded"
    /\ UNCHANGED << toReturn, options, inputFile, images, htmlFiles, rowsByDirectory, filenameToRow,
                    dirsToSearch, allCandidateDetections, suspiciousDetections,
                    nBboxChanges, outputFile, filteringDirs, error >>
    /\ UNCHANGED poolVars

\* "Separate files into directories"
SeparateFiles ==
    /\ pc = "loaded"
    /\ LET r == SeparateRows(EmptyPartition, detectionResults, 0, options)
       IN  IF r.error # ""
           THEN /\ Fail(r.error)
                /\ UNCHANGED << rowsByDirectory, filenameToRow >>
           ELSE /\ rowsByDirectory' = r.rowsByDirectory
                /\ filenameToRow' = r.filenameToRow
                /\ pc' = "separated"
                /\ UNCHANGED error
    /\ UNCHANGED << toReturn, options, inputFile, images, htmlFiles, detectionResults, dirsToSearch,
                    allCandidateDetections, suspiciousDetections, nBboxChanges,
                    outputFile, filteringDirs >>
    /\ UNCHANGED poolVars

\* "Look for matches", not options.bParallelizeComparisons: one
\* find_matches_in_directory after the other, in the calling thread
FindSimilarDetections ==
    /\ pc = "separated"
    /\ ~bReload
    /\ ~options.bParallelizeComparisons
    /\ pbar' = <<>>
    /\ UNCHANGED << tasks, completed >>
    /\ LET dirs == DirsToSearch(rowsByDirectory, options)
           found == [iDir \in DOMAIN dirs |->
                        find_matches_in_directory(dirs[iDir], options,
                                                  rowsByDirectory, detectionResults)]
           failedDirs == {iDir \in DOMAIN dirs : found[iDir].error # ""}
       IN  /\ dirsToSearch' = dirs
           /\ IF failedDirs # {}
              THEN /\ Fail(found[CHOOSE i \in failedDirs :
                                    \A j \in failedDirs : i <= j].error)
                   /\ UNCHANGED allCandidateDetections
              ELSE /\ allCandidateDetections' =
                        [iDir \in DOMAIN dirs |-> found[iDir].candidateDetections]
                   /\ pc' = "matched"
                   /\ UNCHANGED error
    /\ UNCHANGED << toReturn, options, inputFile, images, htmlFiles, detectionResults, rowsByDirectory,
                    filenameToRow, suspiciousDetections, nBboxChanges, outputFile,
                    filteringDirs >>

\* ---- "Look for matches", options.bParallelizeComparisons:
\* Parallel(n_jobs=options.nWorkers, prefer='threads')(delayed(
\*     find_matches_in_directory)(dirName, options, rowsByDirectory) ...)

\* joblib refuses n_jobs == 0 ("n_jobs == 0 in Parallel has no meaning")
ParallelRejects(n_jobs) == n_jobs = 0

\* one call of find_matches_in_directory in the pool: whether it has been
\* entered (and has updated options.pbar), the rows scanned so far and its
\* local candidateDetections
NewTask ==
    [entered |-> FALSE, k |-> 0, acc |-> [candidateDetections |-> <<>>, error |-> ""]]

TaskRows(iDir) == RowsOfDir(rowsByDirectory, dirsToSearch[iDir])
TaskStarted(task) == task.entered
TaskFailedIgnored(task) == FALSE
TaskFailed(task) == task.acc.error # ""
TaskFinished(iDir) == TaskFailed(tasks[iDir]) \/ tasks[iDir].k >= Len(TaskRows(iDir))

\* the list Parallel returns: one result per task, in the order of the tasks
CollectInCompletionOrder(results, order) ==
    [i \in DOMAIN order |-> results[order[i]].acc.candidateDetections]
CollectResults(results, order) ==
    [i \in DOMAIN results |-> results[i].acc.candidateDetections]

\* options.pbar = tqdm(total=len(dirsToSearch)); the tasks are created
StartParallel ==
    /\ pc = "separated"
    /\ ~bReload
    /\ options.bParallelizeComparisons
    /\ LET dirs == DirsToSearch(rowsByDirectory, options)
       IN  /\ dirsToSearch' = dirs
           /\ pbar' = <<0>>
           /\ IF ParallelRejects(options.nWorkers)
              THEN /\ Fail("ValueError: n_jobs == 0 in Parallel has no meaning")
                   /\ UNCHANGED tasks
              ELSE /\ tasks' = [iDir \in DOMAIN dirs |-> NewTask]
                   /\ pc' = "searching"
                   /\ UNCHANGED error
    /\ completed' = <<>>
    /\ UNCHANGED << toReturn, options, inputFile, images, htmlFiles, detectionResults, rowsByDirectory,
                    filenameToRow, allCandidateDetections, suspiciousDetections,
                    nBboxChanges, outputFile, filteringDirs >>

\* options.pbar.update() at the head of find_matches_in_directory: every task
\* increments the counter of the one tqdm object without synchronization, so
\* when another task may be updating it at the same time (more than one worker
\* thread) the increment of one of them can be lost
PbarUpdate(iDir) ==
    IF /\ options.nWorkers # 1
       /\ \E j \in DOMAIN tasks : j # iDir /\ TaskStarted(tasks[j])
    THEN { <<pbar[1] + 1>>, pbar }
    ELSE { <<pbar[1] + 1>> }

\* the pool hands the tasks to its worker threads in the order of the tasks,
\* each to a thread that has no unfinished task: task iDir has been handed out
\* once at most nWorkers of the tasks up to it are unfinished
TaskTaken(iDir) ==
    \/ options.nWorkers < 0
    \/ Cardinality({ j \in 1..iDir : ~TaskFinished(j) }) <= options.nWorkers

\* the thread of a task that has been handed out executes the head of
\* find_matches_in_directory: options.pbar.update(), candidateDetections = [].
\* The threads run independently, so the calls pass their heads in any order
WorkerEnter(iDir) ==
    /\ pc = "searching"
    /\ iDir \in DOMAIN tasks
    /\ ~TaskStarted(tasks[iDir])
    /\ TaskTaken(iDir)
    /\ tasks' = [tasks EXCEPT ![iDir].entered = TRUE]
    /\ pbar' \in PbarUpdate(iDir)
    /\ UNCHANGED << toReturn, options, inputFile, images, htmlFiles, detectionResults, rowsByDirectory,
                    filenameToRow, dirsToSearch, allCandidateDetections,
                    suspiciousDetections, nBboxChanges, outputFile, filteringDirs,
                    completed, pc, error >>

\* a worker thread runs its find_matches_in_directory call one row further
WorkerStep(iDir) ==
    /\ pc = "searching"
    /\ iDir \in DOMAIN tasks
    /\ TaskStarted(tasks[iDir])
    /\ ~TaskFinished(iDir)
    /\ LET task == tasks[iDir]
           rows == TaskRows(iDir)
           acc == ScanRow(task.acc, detectionResults[rows[task.k + 1] + 1],
                          dirsToSearch[iDir], options)
       IN  /\ tasks' = [tasks EXCEPT ![iDir].k = task.k + 1, ![iDir].acc = acc]
           /\ completed' = IF acc.error # "" \/ task.k + 1 >= Len(rows)
                           THEN Append(completed, iDir) ELSE completed
    /\ UNCHANGED << toReturn, options, inputFile, images, htmlFiles, detectionResults, rowsByDirectory,
                    filenameToRow, dirsToSearch, allCandidateDetections,
                    suspiciousDetections, nBboxChanges, outputFile, filteringDirs,
                    pbar, pc, error >>

\* the exception of a failed task is raised from the Parallel call
WorkerRaise ==
    /\ pc = "searching"
    /\ \E iDir \in DOMAIN tasks :
          /\ TaskFailed(tasks[iDir])
          /\ Fail(tasks[iDir].acc.error)
    /\ UNCHANGED << toReturn, options, inputFile, images, htmlFiles, detectionResults, rowsByDirectory,
                    filenameToRow, dirsToSearch, allCandidateDetections,
                    suspiciousDetections, nBboxChanges, outputFile, filteringDirs,
                    pbar, tasks, completed >>

\* every task has returned: allCandidateDetections = Parallel(...)(...)
ParallelReturns ==
    /\ pc = "searching"
    /\ \A iDir \in DOMAIN tasks : TaskFinished(iDir) /\ ~TaskFailed(tasks[iDir])
    /\ allCandidateDetections' = CollectResults(tasks, completed)
    /\ pc' = "matched"
    /\ UNCHANGED << toReturn, options, inputFile, images, htmlFiles, detectionResults, rowsByDirectory,
                    filenameToRow, dirsToSearch, suspiciousDetections, nBboxChanges,
                    outputFile, filteringDirs, pbar, tasks, completed, error >>

\* "Find suspicious locations based on match results"
FindSuspiciousLocations ==
    /\ pc = "matched"
    /\ suspiciousDetections' =
          [iDir \in DOMAIN dirsToSearch |->
              SuspiciousDetectionsThisDir(allCandidateDetections[iDir], options)]
    /\ pc' = "classified"
    /\ UNCHANGED << toReturn, options, inputFile, images, htmlFiles, detectionResults, rowsByDirectory,
                    filenameToRow, dirsToSearch, allCandidateDetections,
                    nBboxChanges, outputFile, filteringDirs, error >>
    /\ completed' = <<>>
    /\ UNCHANGED << pbar, tasks >>

\* the candidates stored in the review file options.filterFileToLoad
LoadedDetections == JsonDecode(filteringDirs[options.filterFileToLoad[1]].index[1])
\* the sample images left in the folder of the review file
FilteringBaseDirFiles == filteringDirs[options.filterFileToLoad[1]].files

\* assert len(suspiciousDetections) == len(dirsToSearch)
SameDirCountUnchecked(loaded, dirs) == TRUE
SameDirCount(loaded, dirs) == Len(loaded) = Len(dirs)

\* "Bypassing detection-finding, loading from filterFileToLoad"
LoadFilterFile ==
    /\ pc = "separated"
    /\ bReload
    /\ LET dirs == DirsToSearch(rowsByDirectory, options)
       IN  /\ dirsToSearch' = dirs
           /\ IF ~SameDirCount(LoadedDetections, dirs)
              THEN /\ Fail("assert len(suspiciousDetections) == len(dirsToSearch)")
                   /\ UNCHANGED suspiciousDetections
              ELSE /\ suspiciousDetections' =
                        [iDir \in DOMAIN LoadedDetections |->
                            DetectionsFiltered(LoadedDetections[iDir],
                                               options.filteredFileListToLoad,
                                               FilteringBaseDirFiles)]
                   /\ pc' = "classified"
                   /\ UNCHANGED error
    /\ UNCHANGED << toReturn, options, inputFile, images, htmlFiles, detectionResults, rowsByDirectory,
                    filenameToRow, allCandidateDetections, nBboxChanges,
                    outputFile, filteringDirs >>
    /\ UNCHANGED poolVars

\* "Render problematic locations with html (loop)".  With
\* options.bParallelizeRendering the directories are rendered by a pool of
\* threads: when one of them raises, the directories after it may or may not
\* have been rendered
RenderHtml ==
    /\ pc = "classified"
    /\ options.bRenderHtml
    /\ pbar' = <<>>
    /\ IF options.bParallelizeRendering /\ ParallelRejects(options.nWorkers)
       THEN /\ Fail("ValueError: n_jobs == 0 in Parallel has no meaning")
            /\ UNCHANGED htmlFiles
       ELSE LET r == RenderDirectories([files |-> {}, directoryHtmlFiles |-> <<>>,
                                        iFailed |-> -1, error |-> ""],
                                       0, suspiciousDetections, options, images)
                later == IF options.bParallelizeRendering /\ options.nWorkers # 1
                         THEN (r.iFailed + 1)..(Len(suspiciousDetections) - 1)
                         ELSE {}
            IN  IF r.error # ""
                THEN /\ Fail(r.error)
                     /\ \E others \in SUBSET later :
                           htmlFiles' =
                               htmlFiles \cup r.files \cup
                               UNION { render_images_for_directory(
                                           iDir, suspiciousDetections, options,
                                           images).files : iDir \in others }
                ELSE /\ htmlFiles' = htmlFiles \cup r.files \cup {<<>>}
                     /\ pc' = "rendered"
                     /\ UNCHANGED error
    /\ UNCHANGED << toReturn, options, inputFile, images, detectionResults, rowsByDirectory,
                    filenameToRow, dirsToSearch, allCandidateDetections,
                    suspiciousDetections, nBboxChanges, outputFile, filteringDirs >>
    /\ UNCHANGED << tasks, completed >>

\* toReturn.allRowsFiltered = update_detection_table(toReturn, options, outputFilename)
UpdateDetectionTableWritesFirst ==
    /\ pc = (IF options.bRenderHtml THEN "rendered" ELSE "classified")
    /\ LET r == update_detection_table(detectionResults, suspiciousDetections,
                                       filenameToRow, options)
       IN  /\ detectionResults' = r.table
           /\ nBboxChanges' = r.nBboxChanges
           /\ IF r.error # ""
              THEN /\ Fail(r.error)
                   /\ outputFile' = <<r.table>>
              ELSE /\ outputFile' = <<r.table>>
                   /\ pc' = "updated"
                   /\ UNCHANGED error
    /\ UNCHANGED << toReturn, options, inputFile, images, htmlFiles, rowsByDirectory, filenameToRow,
                    dirsToSearch, allCandidateDetections, suspiciousDetections,
                    filteringDirs >>
    /\ UNCHANGED poolVars
UpdateDetectionTable ==
    /\ pc = (IF options.bRenderHtml THEN "rendered" ELSE "classified")
    /\ LET r == update_detection_table(detectionResults, suspiciousDetections,
                                       filenameToRow, options)
       IN  /\ detectionResults' = r.table
           /\ nBboxChanges' = r.nBboxChanges
           /\ IF r.error # ""
              THEN /\ Fail(r.error)
                   /\ UNCHANGED outputFile
              ELSE /\ outputFile' = <<r.table>>
                   /\ pc' = "updated"
                   /\ UNCHANGED error
    /\ UNCHANGED << toReturn, options, inputFile, images, htmlFiles, rowsByDirectory, filenameToRow,
                    dirsToSearch, allCandidateDetections, suspiciousDetections,
                    filteringDirs >>
    /\ UNCHANGED poolVars

\* "Create filtering directory".  The folder is named after the second in
\* which it is made and os.makedirs(filteringDir, exist_ok=True) accepts a
\* folder that is already there: a call in the same second as the call that
\* made the newest folder writes into that folder
CreateFilteringFolder ==
    /\ pc = "updated"
    /\ IF options.bWriteFilteringFolder
       THEN \E bSameSecond \in {FALSE} \cup { Len(filteringDirs) > 0 } :
            LET old == IF bSameSecond THEN filteringDirs[Len(filteringDirs)]
                       ELSE [files |-> {}, index |-> <<>>]
                Put(folder) ==
                    IF bSameSecond
                    THEN [filteringDirs EXCEPT ![Len(filteringDirs)] = folder]
                    ELSE Append(filteringDirs, folder)
                r == RenderSamples([suspiciousDetections |-> suspiciousDetections,
                                    files |-> {}, error |-> ""],
                                   EventIndex(suspiciousDetections, 0), 1, images)
            IN  /\ suspiciousDetections' = r.suspiciousDetections
                /\ allCandidateDetections' =
                      WithSampleNames(allCandidateDetections, r.suspiciousDetections,
                                      options)
                /\ IF r.error # ""
                   THEN /\ filteringDirs' =
                             Put([files |-> old.files \cup r.files, index |-> old.index])
                        /\ Fail(r.error)
                        /\ UNCHANGED toReturn
                   ELSE /\ filteringDirs' =
                             Put([files |-> old.files \cup r.files,
                                  index |-> <<JsonEncode(r.suspiciousDetections)>>])
                        /\ toReturn' = <<r.suspiciousDetections>>
                        /\ pc' = "done"
                        /\ UNCHANGED error
       ELSE /\ toReturn' = <<suspiciousDetections>>
            /\ pc' = "done"
            /\ UNCHANGED << suspiciousDetections, allCandidateDetections,
                            filteringDirs, error >>
    /\ UNCHANGED << options, inputFile, images, htmlFiles, detectionResults, rowsByDirectory,
                    filenameToRow, dirsToSearch, nBboxChanges, outputFile >>
    /\ UNCHANGED poolVars

\* a later call render_images_for_directory(iDir, directoryHtmlFiles,
\* results.suspiciousDetections, options) on the returned results, with the
\* options of the run or with a higher occurrenceThreshold
RenderImagesForDirectory(iDir, occurrenceThreshold) ==
    /\ pc \in {"done", "rendered_again"}
    /\ iDir \in 0..(Len(suspiciousDetections) - 1)
    /\ IF pbar = <<>> THEN TRUE ELSE pbar[1] < MaxPbar
    /\ pbar' = IF pbar = <<>> THEN pbar ELSE <<pbar[1] + 1>>
    /\ LET r == render_images_for_directory(
                     iDir, suspiciousDetections,
                     [options EXCEPT !.occurrenceThreshold = occurrenceThreshold],
                     images)
       IN  /\ htmlFiles' = htmlFiles \cup r.files
           /\ IF r.error # ""
              THEN Fail(r.error)
              ELSE /\ pc' = "rendered_again"
                   /\ UNCHANGED error
    /\ UNCHANGED << toReturn, options, inputFile, images, detectionResults, rowsByDirectory,
                    filenameToRow, dirsToSearch, allCandidateDetections,
                    suspiciousDetections, nBboxChanges, outputFile, filteringDirs >>
    /\ UNCHANGED << tasks, completed >>

\* a later call update_detection_table(results, options) on the returned results
UpdateDetectionTableAgain ==
    /\ pc = "done"
    /\ LET r == update_detection_table(detectionResults, suspiciousDetections,
                                       filenameToRow, options)
       IN  /\ detectionResults' = r.table
           /\ nBboxChanges' = r.nBboxChanges
           /\ IF r.error # ""
              THEN Fail(r.error)
              ELSE /\ pc' = "again"
                   /\ UNCHANGED error
    /\ UNCHANGED << toReturn, options, inputFile, images, htmlFiles, rowsByDirectory, filenameToRow,
                    dirsToSearch, allCandidateDetections, suspiciousDetections,
                    outputFile, filteringDirs >>
    /\ UNCHANGED poolVars

\* manual review: the reviewer deletes a sample image of the filtering folder
DeleteSampleImage ==
    /\ pc = "done"
    /\ ~bReload
    /\ Len(filteringDirs) > 0
    /\ \E f \in filteringDirs[Len(filteringDirs)].files :
          filteringDirs' =
              [filteringDirs EXCEPT ![Len(filteringDirs)].files = @ \ {f}]
    /\ UNCHANGED << toReturn, options, inputFile, images, htmlFiles, detectionResults, rowsByDirectory,
                    filenameToRow, dirsToSearch, allCandidateDetections,
                    suspiciousDetections, nBboxChanges, outputFile, pc, error >>
    /\ UNCHANGED poolVars

\* the sample image names recorded in a review file
SampleNames(sIn) ==
    UNION { { sIn[d][c].sampleImageRelativeFileName : c \in DOMAIN sIn[d] } :
            d \in DOMAIN sIn }

\* find_repeat_detections is run again on the same input with
\* options.filterFileToLoad set to the review file of the first run, with or
\* without a keep-list (options.filteredFileListToLoad)
RunReload ==
    /\ pc = "done"
    /\ ~bReload
    /\ Len(filteringDirs) > 0
    /\ Len(filteringDirs[Len(filteringDirs)].index) > 0
    /\ \E fileList \in
            {<<>>} \cup
            { <<keep>> : keep \in
                SUBSET SampleNames(filteringDirs[Len(filteringDirs)].index[1]) } :
          options' = [options EXCEPT !.filterFileToLoad = <<Len(filteringDirs)>>,
                                     !.filteredFileListToLoad = fileList]
    /\ detectionResults' = <<>>
    /\ rowsByDirectory' = <<>>
    /\ filenameToRow' = <<>>
    /\ dirsToSearch' = <<>>
    /\ allCandidateDetections' = <<>>
    /\ suspiciousDetections' = <<>>
    /\ nBboxChanges' = 0
    /\ pc' = "start"
    /\ UNCHANGED << toReturn, inputFile, images, htmlFiles, outputFile, filteringDirs, error >>
    /\ UNCHANGED poolVars

Next ==
    \/ LoadFile
    \/ SeparateFiles
    \/ FindSimilarDetections
    \/ StartParallel
    \/ \E iDir \in DOMAIN tasks : WorkerEnter(iDir)
    \/ \E iDir \in DOMAIN tasks : WorkerStep(iDir)
    \/ WorkerRaise
    \/ ParallelReturns
    \/ FindSuspiciousLocations
    \/ LoadFilterFile
    \/ RenderHtml
    \/ UpdateDetectionTable
    \/ CreateFilteringFolder
    \/ UpdateDetectionTableAgain
    \/ \E iDir \in DOMAIN suspiciousDetections :
          \E occurrenceThreshold \in { options.occurrenceThreshold,
                                       options.occurrenceThreshold + 1 } :
             RenderImagesForDirectory(iDir - 1, occurrenceThreshold)
    \/ DeleteSampleImage
    \/ RunReload

Spec == Init /\ [][Next]_vars

\* ------------------------------------------------------------ properties
\* all candidates of all directories, as one set
AllLocations(susp) ==
    UNION { { susp[d][c] : c \in DOMAIN susp[d] } : d \in DOMAIN susp }

NumLocations(susp) ==
    Cardinality({ <<d, c>> \in (DOMAIN susp) \X (0..50) :
                    c + 1 \in DOMAIN susp[d] })

\* the detections (<<filename, iDetection>>) that instances of these candidates refer to
ReferencedBy(locations) ==
    UNION { { <<l.instances[k].filename, l.instances[k].iDetection>> :
                k \in DOMAIN l.instances } : l \in locations }

\* every detection of a table, as <<row (1-based), position (1-based)>>
DetectionsOf(table) ==
    UNION { { <<i, j>> : j \in DOMAIN table[i].detections } : i \in DOMAIN table }

DetectionKey(table, ij) == <<table[ij[1]].file, ij[2] - 1>>

\* a step that is a call of update_detection_table
RenderErrors ==
    { "ValueError: n_jobs == 0 in Parallel has no meaning",
      "assert (nInstances >= options.occurrenceThreshold)",
      "IndexError: list index out of range" }
BeforeUpdate == IF options.bRenderHtml THEN "rendered" ELSE "classified"
UpdateStep ==
    /\ pc \in {BeforeUpdate, "done"}
    /\ pc' \in {"updated", "again", "failed"}
    /\ error' \notin RenderErrors
UpdateCompletes == pc \in {BeforeUpdate, "done"} /\ pc' \in {"updated", "again"}
SecondUpdateStep == pc = "done" /\ pc' \in {"again", "failed"} /\ error' \notin RenderErrors

\* C1: a discover-mode run with the other options at their defaults on the table
\* whose only directory A holds 20 images, each with one detection at
\* (0.1,0.1,0.05,0.05), confidence 0.9, category 1, with occurrenceThreshold=15,
\* iouThreshold=0.9 and confidenceMin=0.85, ends with exactly one suspicious
\* candidate, of 20 instances, and with all 20 confidences at -0.9.
ScenarioSuppressed ==
    ( /\ pc = "done"
      /\ inputFile = ScenarioTable(20, FALSE)
      /\ options = [RepeatDetectionOptions EXCEPT !.confidenceMin = 850] )
    => /\ NumLocations(suspiciousDetections) = 1
       /\ \A l \in AllLocations(suspiciousDetections) : Len(l.instances) = 20
       /\ \A i \in DOMAIN detectionResults :
             detectionResults[i].detections[1].conf = -900

\* C2: a completed update_detection_table call never raises the cached maximum
\* confidence of any record.
MaxConfidenceNeverIncreases ==
    [][ UpdateCompletes =>
          \A i \in DOMAIN detectionResults :
              detectionResults'[i].max_detection_conf
                  <= detectionResults[i].max_detection_conf ]_vars

\* the update has lowered the cached maximum of some record
MaxConfidenceLowered ==
    /\ pc = "updated"
    /\ \E i \in DOMAIN detectionResults :
          detectionResults[i].max_detection_conf < inputFile[i].max_detection_conf

\* C3: after pass 1, every detection that instances of suspicious candidates refer
\* to, however many candidates refer to it, carries the negation of its original
\* confidence (it was negated exactly once), and every negation was counted once.
NegatedExactlyOnce ==
    pc = "updated" =>
        /\ \A ij \in DetectionsOf(detectionResults) :
              DetectionKey(detectionResults, ij)
                    \in ReferencedBy(AllLocations(suspiciousDetections))
              => /\ detectionResults[ij[1]].detections[ij[2]].conf
                        = -inputFile[ij[1]].detections[ij[2]].conf
                 /\ detectionResults[ij[1]].detections[ij[2]].conf < 0
        /\ nBboxChanges = Cardinality(ReferencedBy(AllLocations(suspiciousDetections)))

\* a detection that is an instance of two suspicious candidates has been suppressed
NegatedMemberOfTwoCandidates ==
    /\ pc = "updated"
    /\ \E l1, l2 \in AllLocations(suspiciousDetections) :
          /\ l1 # l2
          /\ ReferencedBy({l1}) \cap ReferencedBy({l2}) # {}

\* C4 as claimed: a second update_detection_table call on the suppressed table,
\* with the same candidates, completes without error and changes nothing.
SecondUpdateCompletesUnchanged ==
    [][ SecondUpdateStep =>
          /\ pc' = "again"
          /\ detectionResults' = detectionResults ]_vars

\* C4 as amended: the second call changes no confidence and no cached maximum,
\* and it completes exactly when no record with detections has a negative cached
\* maximum; otherwise it stops at "assert maxPOriginal >= 0".
SecondUpdateChangesNothing ==
    [][ SecondUpdateStep =>
          /\ detectionResults' = detectionResults
          /\ pc' = "again" <=>
                \A i \in DOMAIN detectionResults :
                    \/ Len(detectionResults[i].detections) = 0
                    \/ detectionResults[i].max_detection_conf >= 0
          /\ pc' = "failed" => error' = "assert maxPOriginal >= 0" ]_vars

\* a second call has completed on a table with suppressed detections
SecondUpdateOnSuppressedTable ==
    /\ pc = "again"
    /\ \E ij \in DetectionsOf(detectionResults) :
          detectionResults[ij[1]].detections[ij[2]].conf < 0

\* C5: in discover mode a candidate of a searched directory with exactly
\* occurrenceThreshold - 1 instances is not in suspiciousDetections, and one with
\* exactly occurrenceThreshold instances is.
OccurrenceThresholdBoundary ==
    (pc = "classified" /\ ~bReload) =>
        \A iDir \in DOMAIN allCandidateDetections :
            \A c \in DOMAIN allCandidateDetections[iDir] :
                LET candidate == allCandidateDetections[iDir][c]
                    flagged == \E k \in DOMAIN suspiciousDetections[iDir] :
                                   suspiciousDetections[iDir][k] = candidate
                IN  /\ Len(candidate.instances) = options.occurrenceThreshold - 1
                        => ~flagged
                    /\ Len(candidate.instances) = options.occurrenceThreshold
                        => flagged

\* one directory has a candidate just below and a candidate exactly at the threshold
CandidatesAtAndBelowThreshold ==
    /\ pc = "classified"
    /\ ~bReload
    /\ \E iDir \in DOMAIN allCandidateDetections :
          \E c1, c2 \in DOMAIN allCandidateDetections[iDir] :
              /\ Len(allCandidateDetections[iDir][c1].instances)
                    = options.occurrenceThreshold - 1
              /\ Len(allCandidateDetections[iDir][c2].instances)
                    = options.occurrenceThreshold

\* the relative area of a box as find_matches_in_directory computes it
ComputedArea(bbox) == FloatProduct(bbox[4], bbox[3])

\* the other filters of find_matches_in_directory: image file, cached maximum,
\* confidence bounds, excluded classes
PassesOtherFilters(row, detection) ==
    /\ is_image_file(row.file)
    /\ row.max_detection_conf >= options.confidenceMin
    /\ detection.conf >= options.confidenceMin
    /\ detection.conf <= options.confidenceMax
    /\ detection.category \notin options.excludeClasses

\* the detections of the searched directories, as <<iDir, row, position>> (1-based)
SearchedDetections ==
    UNION { UNION { { <<iDir, i, j>> : j \in DOMAIN detectionResults[i].detections } :
                    i \in { r + 1 : r \in { RowsOfDir(rowsByDirectory, dirsToSearch[iDir])[k] :
                              k \in DOMAIN RowsOfDir(rowsByDirectory, dirsToSearch[iDir]) } } } :
            iDir \in DOMAIN dirsToSearch }

IsCandidateMember(iDir, i, j) ==
    <<detectionResults[i].file, j - 1>>
        \in ReferencedBy(AllLocations(<<allCandidateDetections[iDir]>>))

\* C6 as claimed: a detection whose relative area equals
\* maxSuspiciousDetectionSize never joins or founds a candidate, while one that
\* passes the other filters and whose area is below it is a candidate member.
AreaAtLimitExcluded ==
    pc = "matched" =>
        \A t \in SearchedDetections :
            LET row == detectionResults[t[2]]
                detection == row.detections[t[3]]
            IN  PassesOtherFilters(row, detection) =>
                  ( IsCandidateMember(t[1], t[2], t[3])
                      <=> FloatLess(ComputedArea(detection.bbox),
                                    options.maxSuspiciousDetectionSize) )

\* C6 as amended: only a detection whose relative area, the floating-point
\* product width * height that the code computes, is above
\* maxSuspiciousDetectionSize is excluded; one that passes the other filters and
\* whose computed area is at or below it is a member of a candidate of its
\* directory.
AreaAboveLimitExcluded ==
    pc = "matched" =>
        \A t \in SearchedDetections :
            LET row == detectionResults[t[2]]
                detection == row.detections[t[3]]
            IN  PassesOtherFilters(row, detection) =>
                  ( IsCandidateMember(t[1], t[2], t[3])
                      <=> ~FloatGreater(ComputedArea(detection.bbox),
                                         options.maxSuspiciousDetectionSize) )

\* a detection exactly at the limit is a candidate member, one above it is not
AreaAtLimitIsCandidate ==
    /\ pc = "matched"
    /\ \E t \in SearchedDetections :
          /\ BoxArea(detectionResults[t[2]].detections[t[3]].bbox)
                = options.maxSuspiciousDetectionSize
          /\ IsCandidateMember(t[1], t[2], t[3])
    /\ \E t \in SearchedDetections :
          /\ PassesOtherFilters(detectionResults[t[2]],
                                detectionResults[t[2]].detections[t[3]])
          /\ BoxArea(detectionResults[t[2]].detections[t[3]].bbox)
                > options.maxSuspiciousDetectionSize
          /\ ~IsCandidateMember(t[1], t[2], t[3])

\* a call of update_detection_table changes no bounding box, no category and
\* no confidence of a detection that no instance of a suspicious candidate
\* refers to
ChangesOnlyReferencedConfidences ==
    /\ DOMAIN detectionResults' = DOMAIN detectionResults
    /\ \A i \in DOMAIN detectionResults :
          /\ detectionResults'[i].file = detectionResults[i].file
          /\ DOMAIN detectionResults'[i].detections
                = DOMAIN detectionResults[i].detections
          /\ \A j \in DOMAIN detectionResults[i].detections :
                LET before == detectionResults[i].detections[j]
                    after == detectionResults'[i].detections[j]
                IN  /\ DOMAIN after = DOMAIN before
                    /\ \A f \in (DOMAIN before) \ {"conf"} : after[f] = before[f]
                    /\ <<detectionResults[i].file, j - 1>>
                          \notin ReferencedBy(AllLocations(suspiciousDetections))
                       => after.conf = before.conf

\* C7: a call of update_detection_table changes only confidences of
\* detections that an instance of a suspicious candidate refers to, and with no
\* suspicious candidate it leaves all confidences and all cached maxima as
\* they were.
NoCandidateLeavesTheTable ==
    [][ UpdateStep =>
          /\ ChangesOnlyReferencedConfidences
          /\ AllLocations(suspiciousDetections) = {}
                => detectionResults' = detectionResults ]_vars

\* reload mode: the loaded candidates whose sample image is gone from the folder
\* of the review file
DeletedLocations ==
    { l \in AllLocations(LoadedDetections) :
        l.sampleImageRelativeFileName \notin FilteringBaseDirFiles }

bNoKeepList == Len(options.filteredFileListToLoad) = 0

\* C8: in reload mode without a keep-list, when exactly one candidate's sample
\* image has been deleted, exactly that candidate is missing from
\* suspiciousDetections, and after the update the negated detections are exactly
\* those that instances of the other loaded candidates refer to.
OneDeletedSampleRemovesOneCandidate ==
    ( /\ bReload
      /\ bNoKeepList
      /\ pc \in {"classified", "updated"}
      /\ Cardinality(DeletedLocations) = 1 )
    => /\ AllLocations(suspiciousDetections)
            = AllLocations(LoadedDetections) \ DeletedLocations
       /\ NumLocations(suspiciousDetections) = NumLocations(LoadedDetections) - 1
       /\ pc = "updated" =>
            \A ij \in DetectionsOf(detectionResults) :
                LET conf == detectionResults[ij[1]].detections[ij[2]].conf
                    bRetained ==
                        DetectionKey(detectionResults, ij) \in
                            ReferencedBy(AllLocations(LoadedDetections) \ DeletedLocations)
                IN  /\ conf < 0 <=> bRetained
                    /\ conf = IF bRetained
                              THEN -inputFile[ij[1]].detections[ij[2]].conf
                              ELSE inputFile[ij[1]].detections[ij[2]].conf

\* two candidates were loaded, the sample of one was deleted, and the update has
\* suppressed a detection of the other
OneOfTwoSamplesDeleted ==
    /\ bReload
    /\ bNoKeepList
    /\ pc = "updated"
    /\ Cardinality(DeletedLocations) = 1
    /\ NumLocations(LoadedDetections) >= 2
    /\ \E ij \in DetectionsOf(detectionResults) :
          detectionResults[ij[1]].detections[ij[2]].conf < 0
    /\ \E ij \in DetectionsOf(detectionResults) :
          /\ DetectionKey(detectionResults, ij) \in ReferencedBy(DeletedLocations)
          /\ detectionResults[ij[1]].detections[ij[2]].conf > 0

\* C9: a reload-mode run on the same table, with no sample image deleted and no
\* keep-list, yields the suspiciousDetections that the discover-mode run returned
\* and exported: as many directories, the same candidates in the same order, the
\* same instances; in particular it does not stop at the directory count check.
ExportReloadRoundTrip ==
    ( /\ bReload
      /\ toReturn # <<>>
      /\ bNoKeepList
      /\ DeletedLocations = {} )
    => /\ pc = "classified" => suspiciousDetections = toReturn[1]
       /\ pc = "failed" =>
            error # "assert len(suspiciousDetections) == len(dirsToSearch)"

\* a review file of two directories with a candidate has been reloaded unchanged
ReloadedTwoDirectories ==
    /\ bReload
    /\ toReturn # <<>>
    /\ bNoKeepList
    /\ DeletedLocations = {}
    /\ pc = "classified"
    /\ Len(suspiciousDetections) = 2
    /\ NumLocations(suspiciousDetections) >= 1

\* the candidate is valid as the manual review left it
KeptByReview(location) ==
    IF bNoKeepList
    THEN location.sampleImageRelativeFileName \in FilteringBaseDirFiles
    ELSE location.sampleImageRelativeFileName \in options.filteredFileListToLoad[1]

KthSmallest(S, k) == CHOOSE x \in S : Cardinality({ y \in S : y < x }) = k - 1

\* C10: in reload mode suspiciousDetections holds, directory by directory, exactly
\* the loaded candidates that the keep-list names (when one is supplied) or whose
\* sample image still exists (when none is), each with all its instances, in the
\* order in which they were loaded.
ReloadKeepsOrDropsWholeCandidates ==
    (bReload /\ pc = "classified") =>
        /\ Len(suspiciousDetections) = Len(LoadedDetections)
        /\ \A d \in DOMAIN LoadedDetections :
              LET kept == { c \in DOMAIN LoadedDetections[d] :
                              KeptByReview(LoadedDetections[d][c]) }
              IN  /\ Len(suspiciousDetections[d]) = Cardinality(kept)
                  /\ \A k \in DOMAIN suspiciousDetections[d] :
                        suspiciousDetections[d][k]
                            = LoadedDetections[d][KthSmallest(kept, k)]

\* with a keep-list, a candidate whose sample image still exists was dropped and
\* one whose sample image was deleted was kept
KeepListOverridesFolder ==
    /\ bReload
    /\ ~bNoKeepList
    /\ pc = "classified"
    /\ \E l \in AllLocations(LoadedDetections) :
          /\ l.sampleImageRelativeFileName \in FilteringBaseDirFiles
          /\ l \notin AllLocations(suspiciousDetections)
    /\ \E l \in AllLocations(LoadedDetections) :
          /\ l.sampleImageRelativeFileName \notin FilteringBaseDirFiles
          /\ l \in AllLocations(suspiciousDetections)

\* ------------------------------------------------------------ worker pool
\* what the serial loop computes for the directories to search of the input
SerialDirs == DirsToSearch(rowsByDirectory, options)

SerialMatches(iDir) ==
    find_matches_in_directory(SerialDirs[iDir], options, rowsByDirectory, inputFile)

SerialCandidates == [iDir \in DOMAIN SerialDirs |-> SerialMatches(iDir).candidateDetections]

bDiscoverPool == ~bReload /\ options.bParallelizeComparisons

\* C11: whatever the interleaving of the worker threads, the candidates of a
\* discover-mode run are those of the serial loop: the directories in the order
\* of rowsByDirectory, each task's result the candidate list of its own
\* directory, the collected list in task order and not in completion order, and
\* the suspicious candidates the classification of that list.
ParallelAsSerial ==
    ~bReload =>
        /\ pc = "searching" =>
              /\ dirsToSearch = SerialDirs
              /\ \A iDir \in DOMAIN tasks :
                    TaskFinished(iDir) /\ ~TaskFailed(tasks[iDir]) =>
                        tasks[iDir].acc.candidateDetections = SerialCandidates[iDir]
        /\ pc = "matched" =>
              /\ dirsToSearch = SerialDirs
              /\ allCandidateDetections = SerialCandidates
        /\ pc = "classified" =>
              suspiciousDetections =
                  [iDir \in DOMAIN SerialDirs |->
                      SuspiciousDetectionsThisDir(SerialCandidates[iDir], options)]

\* the pool has returned the candidates of two directories whose tasks
\* finished in the opposite order, the first after the second had started
SecondTaskFinishedFirst ==
    /\ bDiscoverPool
    /\ pc = "matched"
    /\ completed = <<2, 1>>
    /\ Len(allCandidateDetections[1]) > 0
    /\ Len(allCandidateDetections[2]) > 0
    /\ allCandidateDetections[1] # allCandidateDetections[2]

\* C12 as claimed: a discover-mode run with the default options ends with one
\* entry of suspiciousDetections per directory group of the partitioner.
EveryDirectorySearched ==
    (pc = "done" /\ options = RepeatDetectionOptions) =>
        /\ Len(suspiciousDetections) = Len(rowsByDirectory)
        /\ dirsToSearch = DirKeys(rowsByDirectory)

\* the directories to search whose clustering violates an assertion of
\* find_matches_in_directory
FailingDirs == { iDir \in DOMAIN SerialDirs : SerialMatches(iDir).error # "" }

\* C13: when the clustering of some directory to search fails, serially or in
\* the pool, a discover-mode run never gets past the search: it has no candidate
\* list, the table is as loaded, update_detection_table has not run, and no
\* output table, filtering folder or result exists.
ClusteringFailureFailsRun ==
    (~bReload /\ FailingDirs # {}) =>
        /\ pc \in {"separated", "searching", "failed"}
        /\ pc = "failed" =>
              error \in { SerialMatches(iDir).error : iDir \in FailingDirs }
                        \cup {"ValueError: n_jobs == 0 in Parallel has no meaning"}
        /\ detectionResults = inputFile
        /\ allCandidateDetections = <<>>
        /\ suspiciousDetections = <<>>
        /\ nBboxChanges = 0
        /\ outputFile = <<>>
        /\ filteringDirs = <<>>
        /\ toReturn = <<>>

\* the pool run has failed on one directory although the task of another
\* directory returned candidates
OneTaskFailedAnotherReturned ==
    /\ bDiscoverPool
    /\ pc = "failed"
    /\ \E iDir \in DOMAIN tasks : tasks[iDir].acc.error = error
    /\ \E iDir \in DOMAIN tasks :
          /\ TaskFinished(iDir)
          /\ ~TaskFailed(tasks[iDir])
          /\ Len(tasks[iDir].acc.candidateDetections) > 0

\* the integrity violations on which update_detection_table aborts: a
\* re-verified IoU below the threshold, a mismatched box, a recomputed maximum
\* above the cached one
UpdateIntegrityErrors ==
    { "assert iou >= options.iouThreshold",
      "assert bounding box matches",
      "assert maxP < maxPOriginal" }

\* C14 as claimed: a call of update_detection_table that aborts on an integrity
\* violation leaves every confidence and every cached maximum of the live table
\* as it was before the call.
AbortedUpdateLeavesTable ==
    [][ (UpdateStep /\ pc' = "failed" /\ error' \in UpdateIntegrityErrors)
            => detectionResults' = detectionResults ]_vars

\* ------------------------------------------------------------ partitioner
\* the rows (1-based) whose directory key is empty, or whose file path already
\* occurred in an earlier row
EmptyKeyRows == { i \in DOMAIN inputFile : Len(RowDirName(inputFile[i], options)) = 0 }
RepeatedPathRows ==
    { i \in DOMAIN inputFile : \E j \in 1..(i - 1) : inputFile[j].file = inputFile[i].file }

FirstRejectedRow ==
    CHOOSE i \in EmptyKeyRows \cup RepeatedPathRows :
        \A j \in EmptyKeyRows \cup RepeatedPathRows : i <= j

\* C15: a table with a record whose directory key is empty, or with a file path
\* that occurs twice, never gets past the partitioner: the run fails with the
\* assertion of the first such record, no directory is searched, no candidate
\* exists, the table is as loaded and nothing is written.
PartitionerRejects ==
    (EmptyKeyRows \cup RepeatedPathRows # {}) =>
        /\ pc \in {"start", "loaded", "failed"}
        /\ pc = "failed" =>
              error = IF FirstRejectedRow \in EmptyKeyRows
                      THEN "assert len(dirName) > 0"
                      ELSE "assert relativePath not in filenameToRow"
        /\ ~bReload
        /\ detectionResults \in {<<>>, inputFile}
        /\ rowsByDirectory = <<>>
        /\ dirsToSearch = <<>>
        /\ tasks = <<>>
        /\ allCandidateDetections = <<>>
        /\ suspiciousDetections = <<>>
        /\ nBboxChanges = 0
        /\ outputFile = <<>>
        /\ filteringDirs = <<>>

\* the run has failed on the third record, whose file path is that of the first
RepeatedPathRejected ==
    /\ pc = "failed"
    /\ error = "assert relativePath not in filenameToRow"
    /\ EmptyKeyRows = {}
    /\ FirstRejectedRow = 3
    /\ detectionResults = inputFile

\* ------------------------------------------------------------ reload
\* C16: a reload-mode run whose review file holds another number of
\* per-directory candidate lists than the run has directories to search aborts
\* on the count assertion: no candidate has been filtered, the table is as
\* loaded, and no filtering folder has been written after the review file's.
DirCountMismatchIsFatal ==
    ( /\ bReload
      /\ pc \notin {"start", "loaded"}
      /\ Len(LoadedDetections) # Len(DirsToSearch(rowsByDirectory, options)) )
    => /\ pc \in {"separated", "failed"}
       /\ pc = "failed" =>
             error = "assert len(suspiciousDetections) == len(dirsToSearch)"
       /\ suspiciousDetections = <<>>
       /\ detectionResults = inputFile
       /\ nBboxChanges = 0
       /\ Len(filteringDirs) = options.filterFileToLoad[1]

\* the review file of two directories, with candidates whose samples exist, was
\* loaded by a run that searches one directory, and the run has aborted
TwoListsForOneDirectory ==
    /\ bReload
    /\ pc = "failed"
    /\ Len(LoadedDetections) = 2
    /\ Len(dirsToSearch) = 1
    /\ NumLocations(LoadedDetections) = 2
    /\ DeletedLocations = {}
    /\ detectionResults = inputFile

\* ------------------------------------------------------------ export
\* the suspicious candidates whose representative instance (instances[0])
\* refers to an image that does not exist under imageBase
MissingRepresentatives ==
    { l \in AllLocations(suspiciousDetections) : l.instances[1].filename \notin images }

\* C17 as claimed: a missing image is never fatal; a run that gets to the
\* export with a candidate whose representative image is missing skips its
\* rendering, completes and writes the review file.
MissingImageNeverFatal ==
    (pc = "failed" /\ MissingRepresentatives # {}) =>
        error # "assert os.path.isfile(inputFullPath)"

\* ------------------------------------------------------------ configuration
\* C18 as claimed: with confidenceMin above confidenceMax the run reports a
\* configuration error and attempts nothing: no directory is searched, the table
\* is not updated and no output is written.
InvertedBoundsNotAttempted ==
    options.confidenceMin > options.confidenceMax =>
        /\ pc \notin {"searching", "matched", "classified", "rendered", "updated", "done",
                      "again", "rendered_again"}
        /\ tasks = <<>>
        /\ allCandidateDetections = <<>>
        /\ outputFile = <<>>
        /\ filteringDirs = <<>>

\* ------------------------------------------------------------ input integrity
\* a detection without one of its fields, with a confidence outside [0, 1] or
\* with a box of relative area outside [0, 1]
bMalformed(detection) ==
    \/ ~({"category", "conf", "bbox"} \subseteq DOMAIN detection)
    \/ ~(detection.conf >= 0 /\ detection.conf <= ConfScale)
    \/ ~(BoxArea(detection.bbox) >= 0 /\ BoxArea(detection.bbox) <= BoxScale * BoxScale)

MalformedDetections ==
    { ij \in DetectionsOf(inputFile) : bMalformed(inputFile[ij[1]].detections[ij[2]]) }

\* C19 as claimed: a discover-mode run on a table with a malformed detection
\* aborts, whatever the other detections of its image, the confidence bounds
\* and the excluded categories are: it never gets past the search, even when
\* every directory of the table is searched.
MalformedDetectionAborts ==
    ( /\ ~bReload
      /\ MalformedDetections # {}
      /\ dirsToSearch = DirKeys(rowsByDirectory) )
    => pc \notin {"matched", "classified", "rendered", "updated", "done", "again",
                  "rendered_again"}

\* C20 as claimed: with nWorkers = 0 the directories are searched serially in
\* the calling thread: the branch of the worker pool is not taken (options.pbar
\* stays None, no task is created) and the search is not refused.
ZeroWorkersRunsSerially ==
    ( /\ ~bReload
      /\ options.nWorkers = 0
      /\ pc \notin {"start", "loaded", "separated"} )
    => /\ pbar = <<>>
       /\ tasks = <<>>
       /\ error # "ValueError: n_jobs == 0 in Parallel has no meaning"

\* ------------------------------------------------------- clustering policy
\* the detections of a searched directory that pass every filter of
\* find_matches_in_directory, the area filter included
IsEligible(t) ==
    /\ PassesOtherFilters(detectionResults[t[2]], detectionResults[t[2]].detections[t[3]])
    /\ ~FloatGreater(ComputedArea(detectionResults[t[2]].detections[t[3]].bbox),
                     options.maxSuspiciousDetectionSize)

\* <<file, position>> (0-based position) of a searched detection
SearchedKey(t) == <<detectionResults[t[2]].file, t[3] - 1>>
InstanceKey(instance) == <<instance.filename, instance.iDetection>>

\* the order in which find_matches_in_directory meets two detections of a directory
ScannedBefore(k1, k2) ==
    \/ filenameToRow[k1[1]] < filenameToRow[k2[1]]
    \/ filenameToRow[k1[1]] = filenameToRow[k2[1]] /\ k1[2] < k2[2]

IsInstanceOf(candidate, key) ==
    \E n \in DOMAIN candidate.instances : InstanceKey(candidate.instances[n]) = key

\* C21: a detection that passes the filters is an instance of every candidate
\* of its directory that existed when it was met and whose representative box
\* it overlaps with IoU >= iouThreshold (several candidates if several match),
\* it founds a new candidate, with its own box, exactly when no existing
\* candidate matched, and so it is a member of at least one candidate.
JoinsEveryMatchingCandidate ==
    pc = "matched" =>
        \A t \in {s \in SearchedDetections : IsEligible(s)} :
            LET candidates == allCandidateDetections[t[1]]
                key == SearchedKey(t)
                bbox == detectionResults[t[2]].detections[t[3]].bbox
                Founder(c) == InstanceKey(candidates[c].instances[1])
                Existing == {c \in DOMAIN candidates : ScannedBefore(Founder(c), key)}
                Matching == {c \in Existing :
                                IouAtLeast(get_iou(bbox, candidates[c].bbox),
                                           options.iouThreshold)}
                Founded == {c \in DOMAIN candidates : Founder(c) = key}
            IN  /\ \A c \in DOMAIN candidates :
                      IsInstanceOf(candidates[c], key) <=> c \in Matching \cup Founded
                /\ Founded # {} <=> Matching = {}
                /\ Cardinality(Founded) <= 1
                /\ \A c \in Founded : candidates[c].bbox = bbox
                /\ \E c \in DOMAIN candidates : IsInstanceOf(candidates[c], key)

\* a detection has joined two candidates of its directory, neither founded by it
JoinedTwoCandidates ==
    /\ pc = "matched"
    /\ \E t \in SearchedDetections :
          \E c1, c2 \in DOMAIN allCandidateDetections[t[1]] :
              /\ c1 # c2
              /\ IsInstanceOf(allCandidateDetections[t[1]][c1], SearchedKey(t))
              /\ IsInstanceOf(allCandidateDetections[t[1]][c2], SearchedKey(t))
              /\ InstanceKey(allCandidateDetections[t[1]][c1].instances[1]) # SearchedKey(t)
              /\ InstanceKey(allCandidateDetections[t[1]][c2].instances[1]) # SearchedKey(t)

\* C22: every instance of every candidate that find_matches_in_directory
\* returns is a detection of an image whose cached maximum confidence is at
\* least confidenceMin, with a confidence between confidenceMin and
\* confidenceMax and a category outside excludeClasses; a detection that fails
\* one of these filters is an instance of no candidate.
InstancesPassTheFilters ==
    /\ pc = "matched" =>
          \A iDir \in DOMAIN allCandidateDetections :
              \A c \in DOMAIN allCandidateDetections[iDir] :
                  \A n \in DOMAIN allCandidateDetections[iDir][c].instances :
                      LET instance == allCandidateDetections[iDir][c].instances[n]
                          row == detectionResults[filenameToRow[instance.filename] + 1]
                          detection == row.detections[instance.iDetection + 1]
                      IN  /\ row.file = instance.filename
                          /\ row.max_detection_conf >= options.confidenceMin
                          /\ detection.conf = instance.confidence
                          /\ instance.confidence >= options.confidenceMin
                          /\ instance.confidence <= options.confidenceMax
                          /\ detection.category = instance.category
                          /\ instance.category \notin options.excludeClasses
    /\ pc = "matched" =>
          \A t \in SearchedDetections :
              IsCandidateMember(t[1], t[2], t[3]) =>
                  PassesOtherFilters(detectionResults[t[2]],
                                     detectionResults[t[2]].detections[t[3]])

\* candidates were found beside a detection below confidenceMin, one above
\* confidenceMax and one of an excluded class, all on images that were searched
CandidatesBesideFilteredDetections ==
    /\ pc = "matched"
    /\ \E iDir \in DOMAIN allCandidateDetections : allCandidateDetections[iDir] # <<>>
    /\ \E t \in SearchedDetections :
          /\ detectionResults[t[2]].max_detection_conf >= options.confidenceMin
          /\ detectionResults[t[2]].detections[t[3]].conf < options.confidenceMin
    /\ \E t \in SearchedDetections :
          /\ detectionResults[t[2]].max_detection_conf >= options.confidenceMin
          /\ detectionResults[t[2]].detections[t[3]].conf > options.confidenceMax
    /\ \E t \in SearchedDetections :
          /\ detectionResults[t[2]].max_detection_conf >= options.confidenceMin
          /\ detectionResults[t[2]].detections[t[3]].conf >= options.confidenceMin
          /\ detectionResults[t[2]].detections[t[3]].category \in options.excludeClasses

\* ------------------------------------------------- directories kept apart
\* the records of one directory group alone, as a table of their own
OwnTable(dirName) ==
    SelectSeq(detectionResults, LAMBDA row : RowDirName(row, options) = dirName)

OwnGroup(dirName) ==
    <<[dirName |-> dirName, rows |-> [k \in 1..Len(OwnTable(dirName)) |-> k - 1]]>>

\* C23: detections of different directory groups are never compared or
\* clustered together: every candidate carries the key of the group it was
\* found in, each of its instances is a detection of an image of that group,
\* and the candidates of a group are those found when the table holds the
\* records of that group alone.
DirectoriesClusteredApart ==
    pc = "matched" =>
        \A iDir \in DOMAIN allCandidateDetections :
            /\ \A c \in DOMAIN allCandidateDetections[iDir] :
                  LET candidate == allCandidateDetections[iDir][c]
                  IN  /\ candidate.relativeDir = dirsToSearch[iDir]
                      /\ \A n \in DOMAIN candidate.instances :
                            RowDirName(
                                detectionResults[filenameToRow[candidate.instances[n].filename] + 1],
                                options) = candidate.relativeDir
            /\ allCandidateDetections[iDir]
                  = find_matches_in_directory(dirsToSearch[iDir], options,
                                              OwnGroup(dirsToSearch[iDir]),
                                              OwnTable(dirsToSearch[iDir])).candidateDetections

\* two directories whose records alternate in the table each have a candidate
\* at the same box, with instances of their own images only
SameBoxInTwoDirectories ==
    /\ pc = "matched"
    /\ Len(allCandidateDetections) = 2
    /\ \E c1 \in DOMAIN allCandidateDetections[1], c2 \in DOMAIN allCandidateDetections[2] :
          allCandidateDetections[1][c1].bbox = allCandidateDetections[2][c2].bbox
    /\ \E k \in DOMAIN rowsByDirectory[1].rows :
          rowsByDirectory[2].rows[1] < rowsByDirectory[1].rows[k]

\* ------------------------------------------------------- partition result
\* the <<group, position>> pairs at which row iRow is listed
ListedAt(iRow) ==
    { gk \in UNION { { <<g, k>> : k \in DOMAIN rowsByDirectory[g].rows } :
                      g \in DOMAIN rowsByDirectory } :
        rowsByDirectory[gk[1]].rows[gk[2]] = iRow }

\* C24: once the partitioner has succeeded, the directory groups are a
\* partition of the table: every record is listed exactly once, in the group
\* whose key is the record's directory key, no key names two groups, every
\* group lists its records in table order, and filenameToRow maps the path of
\* every record to its row index.
GroupsPartitionTheTable ==
    rowsByDirectory # <<>> =>
        /\ \A r \in 0..(Len(detectionResults) - 1) :
              /\ Cardinality(ListedAt(r)) = 1
              /\ \A gk \in ListedAt(r) :
                    rowsByDirectory[gk[1]].dirName
                        = RowDirName(detectionResults[r + 1], options)
        /\ \A g \in DOMAIN rowsByDirectory :
              /\ rowsByDirectory[g].rows # <<>>
              /\ \A k \in DOMAIN rowsByDirectory[g].rows :
                    /\ rowsByDirectory[g].rows[k] \in 0..(Len(detectionResults) - 1)
                    /\ k > 1 => rowsByDirectory[g].rows[k - 1] < rowsByDirectory[g].rows[k]
        /\ \A g, h \in DOMAIN rowsByDirectory :
              rowsByDirectory[g].dirName = rowsByDirectory[h].dirName => g = h
        /\ DOMAIN filenameToRow = { detectionResults[i].file : i \in DOMAIN detectionResults }
        /\ \A i \in DOMAIN detectionResults :
              filenameToRow[detectionResults[i].file] = i - 1

\* a table whose first and third records share a directory and whose second
\* record belongs to another has been partitioned into two groups
AlternatingRecordsPartitioned ==
    /\ pc = "separated"
    /\ Len(rowsByDirectory) = 2
    /\ rowsByDirectory[1].rows = <<0, 2>>
    /\ rowsByDirectory[2].rows = <<1>>

\* ------------------------------------------------------- cached maxima
\* p is the largest confidence among the detections
IsLargestConf(p, detections) ==
    /\ \E j \in DOMAIN detections : detections[j].conf = p
    /\ \A j \in DOMAIN detections : detections[j].conf <= p

\* every record with a detection caches the maximum of its detections' confidences
CachedMaximaConsistent(table) ==
    \A i \in DOMAIN table :
        Len(table[i].detections) > 0 =>
            IsLargestConf(table[i].max_detection_conf, table[i].detections)

IsWellFormed(candidate) ==
    /\ Len(candidate.instances) >= 1
    /\ candidate.bbox = candidate.instances[1].bbox
    /\ \A n \in 2..Len(candidate.instances) :
          ScannedBefore(InstanceKey(candidate.instances[n - 1]),
                        InstanceKey(candidate.instances[n]))

\* the candidate lists of the worker tasks
TaskCandidates == [iDir \in DOMAIN tasks |-> tasks[iDir].acc.candidateDetections]

\* list after is list before with instances appended to its candidates and
\* candidates appended to it
GrewFrom(before, after) ==
    /\ Len(after) >= Len(before)
    /\ \A c \in DOMAIN before :
          /\ after[c].bbox = before[c].bbox
          /\ after[c].relativeDir = before[c].relativeDir
          /\ Len(after[c].instances) >= Len(before[c].instances)
          /\ SubSeq(after[c].instances, 1, Len(before[c].instances)) = before[c].instances

\* the candidates a step may copy whole into suspiciousDetections
WholeCandidates ==
    AllLocations(allCandidateDetections) \cup AllLocations(suspiciousDetections)
        \cup (IF bReload THEN AllLocations(LoadedDetections) ELSE {})

\* C26: throughout clustering every candidate keeps the box of its founding
\* instance as its representative box and has at least one instance; a step
\* only appends instances, in the order they are met, and candidates, so no
\* instance count decreases; afterwards candidates are dropped or kept whole
\* (by the classifier and the reload filter), never reduced.
CandidatesOnlyGrow ==
    [][ /\ pc = "searching" => \A iDir \in DOMAIN tasks :
              \A c \in DOMAIN TaskCandidates[iDir] : IsWellFormed(TaskCandidates[iDir][c])
        /\ pc \in {"matched", "classified", "rendered", "updated", "done",
                   "rendered_again"} =>
              \A l \in AllLocations(allCandidateDetections)
                        \cup AllLocations(suspiciousDetections) : IsWellFormed(l)
        /\ (pc = "searching" /\ pc' = "searching") =>
              \A iDir \in DOMAIN tasks :
                  GrewFrom(tasks[iDir].acc.candidateDetections,
                           tasks'[iDir].acc.candidateDetections)
        /\ (pc = "searching" /\ pc' = "matched") =>
              allCandidateDetections' = TaskCandidates
        /\ suspiciousDetections' # suspiciousDetections =>
              \A l \in AllLocations(suspiciousDetections') :
                  \E m \in WholeCandidates :
                      /\ m.bbox = l.bbox
                      /\ m.relativeDir = l.relativeDir
                      /\ m.instances = l.instances ]_vars

\* a worker task that has rows left holds a candidate that has grown to two
\* instances beside a candidate that still has its founder alone
CandidateGrewDuringClustering ==
    /\ pc = "searching"
    /\ \E iDir \in DOMAIN tasks :
          /\ TaskStarted(tasks[iDir])
          /\ ~TaskFinished(iDir)
          /\ \E c1, c2 \in DOMAIN TaskCandidates[iDir] :
                /\ Len(TaskCandidates[iDir][c1].instances) = 2
                /\ Len(TaskCandidates[iDir][c2].instances) = 1

\* ------------------------------------------------------- instance references
\* C27: in discover mode every instance of every suspicious candidate handed
\* to update_detection_table resolves to exactly one detection of the table:
\* its filename is a key of filenameToRow, the row found is the record of that
\* file, iDetection is a position of that record's detection list, and the
\* detection there has the instance's bounding box.
InstancesResolve ==
    (pc = "classified" /\ ~bReload) =>
        \A l \in AllLocations(suspiciousDetections) :
            \A n \in DOMAIN l.instances :
                LET instance == l.instances[n]
                IN  /\ instance.filename \in DOMAIN filenameToRow
                    /\ filenameToRow[instance.filename] + 1 \in DOMAIN detectionResults
                    /\ detectionResults[filenameToRow[instance.filename] + 1].file
                          = instance.filename
                    /\ Cardinality({ i \in DOMAIN detectionResults :
                                        detectionResults[i].file = instance.filename }) = 1
                    /\ instance.iDetection + 1 \in
                          DOMAIN detectionResults[filenameToRow[instance.filename] + 1].detections
                    /\ detectionResults[filenameToRow[instance.filename] + 1]
                          .detections[instance.iDetection + 1].bbox = instance.bbox

\* suspicious candidates of a discover-mode run refer to the first and to the
\* second detection of their images
SuspiciousAtTwoPositions ==
    /\ pc = "classified"
    /\ ~bReload
    /\ \E l1, l2 \in AllLocations(suspiciousDetections) :
          /\ \A n \in DOMAIN l1.instances : l1.instances[n].iDetection = 0
          /\ \A n \in DOMAIN l2.instances : l2.instances[n].iDetection = 1

\* ------------------------------------------------------- writes of the workers
\* a step of the pool while the Parallel call is running
PoolStep == pc = "searching" /\ pc' = "searching"

\* what every find_matches_in_directory call reads
SearchInputs == << options, detectionResults, rowsByDirectory, filenameToRow, dirsToSearch >>

StartedTasks == { iDir \in DOMAIN tasks : TaskStarted(tasks[iDir]) }

\* C28 as claimed: during the parallel clustering phase a worker task only
\* reads its inputs and writes its own candidate list: no step of a task writes
\* an object that another task has written or writes.
WorkersWriteOnlyTheirOwnList ==
    [][ PoolStep =>
          /\ UNCHANGED SearchInputs
          /\ \E iDir \in DOMAIN tasks :
                \A j \in DOMAIN tasks \ {iDir} : tasks'[j] = tasks[j]
          /\ StartedTasks # {} => pbar' = pbar ]_vars

\* ------------------------------------------------------- pass 1 re-check
\* C29: in discover mode with iouThreshold <= 1, every instance of every
\* candidate that find_matches_in_directory produces, the founding instance
\* included, has IoU >= iouThreshold against the representative box of the
\* candidate, so the re-check of pass 1 of update_detection_table never fails.
PassOneRecheckHolds ==
    (~bReload /\ options.iouThreshold <= IouScale) =>
        /\ \A l \in AllLocations(allCandidateDetections)
                    \cup AllLocations(suspiciousDetections) :
              \A n \in DOMAIN l.instances :
                  LET iou == get_iou(l.instances[n].bbox, l.bbox)
                  IN  iou[1] * IouScale >= options.iouThreshold * iou[2]
        /\ error # "assert iou >= options.iouThreshold"

\* pass 1 has completed on a suspicious candidate one of whose instances has a
\* box other than the representative box, overlapping it exactly at the threshold
RecheckedAtTheThreshold ==
    /\ pc = "updated"
    /\ ~bReload
    /\ \E l \in AllLocations(suspiciousDetections) :
          \E n \in DOMAIN l.instances :
              LET iou == get_iou(l.instances[n].bbox, l.bbox)
              IN  /\ l.instances[n].bbox # l.bbox
                  /\ iou[1] * IouScale = options.iouThreshold * iou[2]

\* ------------------------------------------------------- order of the writes
\* the detections that the suspicious candidates refer to are all negative in table
AllSuppressedIn(table) ==
    \A key \in ReferencedBy(AllLocations(suspiciousDetections)) :
        table[filenameToRow[key[1]] + 1].detections[key[2] + 1].conf < 0

\* a step that makes a filtering folder or writes a review file
ReviewFolderWritten ==
    \/ Len(filteringDirs') > Len(filteringDirs)
    \/ \E k \in DOMAIN filteringDirs : filteringDirs'[k].index # filteringDirs[k].index

\* C30: the output table is written only by an update_detection_table call
\* whose two passes have completed: it holds every suspicious instance negated
\* and every cached maximum recomputed; an update that aborts on an assertion
\* writes no output table; and the review file is written only after the table
\* update has completed and written the table.
OutputAfterBothPasses ==
    [][ /\ outputFile' # outputFile =>
              /\ pc = BeforeUpdate
              /\ pc' = "updated"
              /\ outputFile' = <<detectionResults'>>
              /\ AllSuppressedIn(outputFile'[1])
              /\ CachedMaximaConsistent(outputFile'[1])
        /\ (pc \in {"classified", "rendered"} /\ pc' = "failed") =>
              outputFile' = outputFile
        /\ ReviewFolderWritten =>
              /\ pc = "updated"
              /\ outputFile = <<detectionResults>>
              /\ AllSuppressedIn(outputFile[1]) ]_vars

\* a run has written the table, with a suppressed detection in it, and then
\* the review file
TableThenReviewFileWritten ==
    /\ pc = "done"
    /\ ~bReload
    /\ outputFile = <<detectionResults>>
    /\ ReferencedBy(AllLocations(suspiciousDetections)) # {}
    /\ Len(filteringDirs) = 1
    /\ Len(filteringDirs[1].index) = 1

====
